---- MODULE Spec2Model ----
(***************************************************************************)
(* A model of the mylang -> a86 compiler back end (src/src/mylang/compiler) *)
(* together with an abstract x86-64 machine that executes the emitted      *)
(* pseudo-instructions.  The compiler is a family of operators that build  *)
(* statement sequences exactly as the Rust functions do; the machine has   *)
(* one action per class of a86 statement.                                  *)
(***************************************************************************)
EXTENDS Integers, Sequences, FiniteSets, TLC

VARIABLES
    prog,     \* the source program under compilation (ast::Program)
    seeds,    \* iteration orders of the HashSet instances built by the compiler
    code,     \* the emitted a86 statements
    code2,    \* the statements emitted by a second invocation of compile
    status,   \* "init" | "run" | "done" | "err" | "fault" | "panic"
    pc,       \* index into code of the next statement
    regs,     \* register file
    flags,    \* outcome of the last flag-setting instruction: "lt" | "eq" | "gt"
    mem,      \* stack and heap words
    out,      \* bytes handed to write_byte
    inp,      \* bytes still to be delivered by read_byte
    calls,    \* history: open non-tail call sequences (return site, rsp before the sequence)
    marks,    \* history: where the main expression starts and ends in code
    steps     \* number of executed statements (bounded)

vars == <<prog, seeds, code, code2, status, pc, regs, flags, mem, out, inp, calls, marks, steps>>

(***************************************************************************)
(* Bounds of the model.                                                    *)
(***************************************************************************)
MaxSteps == 400
StackWords == 40
HeapWords == 24
MaxOperand == 2
LoopDepth == 3
HashSeeds == 2
DataWords == 4

(***************************************************************************)
(* Small helpers.                                                          *)
(***************************************************************************)
RECURSIVE Pow2(_)
Pow2(n) == IF n = 0 THEN 1 ELSE 2 * Pow2(n - 1)

Min(S) == CHOOSE m \in S : \A o \in S : m <= o

RECURSIVE Flatten(_)
Flatten(ss) == IF ss = <<>> THEN <<>> ELSE Head(ss) \o Flatten(Tail(ss))

\* Bitwise operations on the two's complement representation.  The right
\* operand is a small non-negative mask or tag of at most `bits` bits.
RECURSIVE BitsAnd(_, _, _)
BitsAnd(x, y, bits) ==
    IF bits = 0 THEN 0
    ELSE (IF x % 2 = 1 /\ y % 2 = 1 THEN 1 ELSE 0) + 2 * BitsAnd(x \div 2, y \div 2, bits - 1)

RECURSIVE BitsXor(_, _, _)
BitsXor(x, y, bits) ==
    IF bits = 0 THEN 0
    ELSE (IF x % 2 # y % 2 THEN 1 ELSE 0) + 2 * BitsXor(x \div 2, y \div 2, bits - 1)

RECURSIVE BitsOr(_, _, _)
BitsOr(x, y, bits) ==
    IF bits = 0 THEN 0
    ELSE (IF x % 2 = 1 \/ y % 2 = 1 THEN 1 ELSE 0) + 2 * BitsOr(x \div 2, y \div 2, bits - 1)

MaskBits == 8
And64(x, y) == BitsAnd(x % Pow2(MaskBits), y, MaskBits)
Xor64(x, y) == (x - (x % Pow2(MaskBits))) + BitsXor(x % Pow2(MaskBits), y, MaskBits)
Or64(x, y) == (x - (x % Pow2(MaskBits))) + BitsOr(x % Pow2(MaskBits), y, MaskBits)

(***************************************************************************)
(* data_type.rs: the tagged value representation.                          *)
(***************************************************************************)
IMMEDIATE_SHIFT == 3

UnaryType(shift, tag) == [shift |-> shift, tag |-> tag]
BOX_TYPE == UnaryType(IMMEDIATE_SHIFT, 1)
CONS_TYPE == UnaryType(IMMEDIATE_SHIFT, 2)
VECTOR_TYPE == UnaryType(IMMEDIATE_SHIFT, 3)
STRING_TYPE == UnaryType(IMMEDIATE_SHIFT, 4)
CLOSURE_TYPE == UnaryType(IMMEDIATE_SHIFT, 5)
INT_TYPE == UnaryType(1 + IMMEDIATE_SHIFT, 0 * Pow2(IMMEDIATE_SHIFT))
CHAR_TYPE == UnaryType(2 + IMMEDIATE_SHIFT, 1 * Pow2(IMMEDIATE_SHIFT))
TRUE_TYPE == 3 * Pow2(IMMEDIATE_SHIFT)
FALSE_TYPE == 7 * Pow2(IMMEDIATE_SHIFT)
EOF_TYPE == 11 * Pow2(IMMEDIATE_SHIFT)
VOID_TYPE == 15 * Pow2(IMMEDIATE_SHIFT)
EMPTY_TYPE == 19 * Pow2(IMMEDIATE_SHIFT)

\* UnaryType::encode and UnaryType::mask
\* i64 arithmetic keeps the low 64 bits, read as two's complement; a value
\* in the narrow range is its own low 64 bits
I64(v) ==
    IF 0 - Pow2(30) <= v /\ v < Pow2(30) THEN v
    ELSE ((v + Pow2(63)) % Pow2(64)) - Pow2(63)
\* (value << shift) + tag: the shift drops the bits above bit 63
type_encode(type, value) == I64(value * Pow2(type.shift)) + type.tag
mask(type) == Pow2(type.shift) - 1

\* Value constructors and Value::encode
VInt(i) == [t |-> "Int", n |-> i]
VBool(b) == [t |-> "Boolean", b |-> b]
VChar(c) == [t |-> "Char", c |-> c]
VEof == [t |-> "Eof"]
VVoid == [t |-> "Void"]
VEmptyList == [t |-> "EmptyList"]
VEmptyVector == [t |-> "EmptyVector"]
VEmptyString == [t |-> "EmptyString"]

encode(value) ==
    CASE value.t = "Int" -> type_encode(INT_TYPE, value.n)
      [] value.t = "Char" -> type_encode(CHAR_TYPE, value.c)
      [] value.t = "Boolean" -> IF value.b THEN TRUE_TYPE ELSE FALSE_TYPE
      [] value.t = "Eof" -> EOF_TYPE
      [] value.t = "Void" -> VOID_TYPE
      [] value.t = "EmptyList" -> EMPTY_TYPE
      [] value.t = "EmptyVector" -> VECTOR_TYPE.tag
      [] value.t = "EmptyString" -> STRING_TYPE.tag

(***************************************************************************)
(* a86/ast.rs: operands and statements.                                    *)
(***************************************************************************)
Register(r) == [k |-> "Register", r |-> r]
Immediate(v) == [k |-> "Immediate", v |-> v]
Offset(r, d) == [k |-> "Offset", r |-> r, d |-> d]

RAX == Register("rax")
RBX == Register("rbx")
RSP == Register("rsp")
RDI == Register("rdi")
R8 == Register("r8")
R9 == Register("r9")
R10 == Register("r10")
EAX == Register("eax")
R9D == Register("r9d")
R15 == Register("r15")

Label(name) == [op |-> "Label", name |-> name]
Mov(dest, src) == [op |-> "Mov", dest |-> dest, src |-> src]
And(dest, src) == [op |-> "And", dest |-> dest, src |-> src]
Or(dest, src) == [op |-> "Or", dest |-> dest, src |-> src]
Xor(dest, src) == [op |-> "Xor", dest |-> dest, src |-> src]
Sar(dest, src) == [op |-> "Sar", dest |-> dest, src |-> src]
Sal(dest, src) == [op |-> "Sal", dest |-> dest, src |-> src]
Add(dest, src) == [op |-> "Add", dest |-> dest, src |-> src]
Sub(dest, src) == [op |-> "Sub", dest |-> dest, src |-> src]
Cmp(dest, src) == [op |-> "Cmp", dest |-> dest, src |-> src]
Cmove(dest, src) == [op |-> "Cmove", dest |-> dest, src |-> src]
Cmovl(dest, src) == [op |-> "Cmovl", dest |-> dest, src |-> src]
Jmp(label) == [op |-> "Jmp", label |-> label]
Je(label) == [op |-> "Je", label |-> label]
Jne(label) == [op |-> "Jne", label |-> label]
Jg(label) == [op |-> "Jg", label |-> label]
Jl(label) == [op |-> "Jl", label |-> label]
JmpRegister(r) == [op |-> "JmpRegister", r |-> r]
Push(src) == [op |-> "Push", src |-> src]
Pop(dest) == [op |-> "Pop", dest |-> dest]
Lea(dest, label) == [op |-> "Lea", dest |-> dest, label |-> label]
\* expr is the text "[label + offset]", kept as the pair of its two parts
LeaArithmetic(dest, expr) == [op |-> "LeaArithmetic", dest |-> dest, expr |-> expr]
Data == [op |-> "Data"]
Dq(value) == [op |-> "Dq", value |-> value]
Dd(value) == [op |-> "Dd", value |-> value]
Call(label) == [op |-> "Call", label |-> label]
Ret == [op |-> "Ret"]
Global(name) == [op |-> "Global", name |-> name]
Extern(name) == [op |-> "Extern", name |-> name]

\* format!("{prefix}_{id}"): a label is the pair of its prefix and the decimal
\* text of the id; fixed labels are one-element tuples.
format(prefix, id) == <<prefix, id>>
ERR_LABEL == <<"err">>

(***************************************************************************)
(* compiler/variable.rs: VariablesTable.  An entry is Some(x) = <<x>> or    *)
(* None = <<>>; the last element of the sequence is the top of the stack.  *)
(***************************************************************************)
Some(x) == <<x>>
None == <<>>

VariablesTable_new == <<>>
with_var(env, variable) == Append(env, Some(variable))
with_non_var(env) == Append(env, None)
extended(env, new_variables) == env \o [i \in 1..Len(new_variables) |-> Some(new_variables[i])]
len(env) == Len(env)

\* VariablesTable::position: the index of the first entry (counted from the
\* bottom of the table) that holds the variable, converted to a distance
\* from the top.  The result is an Option.
position(env, variable) ==
    LET hits == {i \in 1..Len(env) : env[i] = Some(variable)}
    IN IF hits = {} THEN None ELSE Some(Len(env) - (Min(hits) - 1) - 1)

(***************************************************************************)
(* compiler/helper.rs                                                      *)
(***************************************************************************)
if_equal ==
    << Mov(RAX, Immediate(encode(VBool(FALSE)))),
       Mov(R9, Immediate(encode(VBool(TRUE)))),
       Cmove(RAX, R9) >>

if_less_than ==
    << Mov(RAX, Immediate(encode(VBool(FALSE)))),
       Mov(R9, Immediate(encode(VBool(TRUE)))),
       Cmovl(RAX, R9) >>

(***************************************************************************)
(* compiler/external_call.rs                                               *)
(***************************************************************************)
\* A padding that always moves rsp by one word.
pad_stack_always == << Mov(R15, Immediate(8)), Sub(RSP, R15) >>
pad_stack == << Mov(R15, RSP), And(R15, Immediate(8)), Sub(RSP, R15) >>
unpad_stack == << Add(RSP, R15) >>
call(label) == pad_stack \o << Call(label) >> \o unpad_stack
compile_read_byte == call(<<"read_byte">>)
compile_peek_byte == call(<<"peek_byte">>)
compile_raise_error == pad_stack \o << Call(<<"raise_error">>) >>
externals ==
    << Extern(<<"read_byte">>), Extern(<<"peek_byte">>),
       Extern(<<"write_byte">>), Extern(<<"raise_error">>) >>

(***************************************************************************)
(* compiler/error.rs                                                       *)
(***************************************************************************)
compile_error_handler == << Label(ERR_LABEL) >> \o compile_raise_error

(***************************************************************************)
(* compiler/types.rs                                                       *)
(***************************************************************************)
cast_type(register, from, to) ==
    << Sar(register, Immediate(from.shift)),
       Sal(register, Immediate(to.shift)),
       Xor(register, Immediate(to.tag)) >>

is_type(type) ==
    << And(RAX, Immediate(mask(type))), Cmp(RAX, Immediate(type.tag)) >> \o if_equal

is_eof == << Cmp(RAX, Immediate(encode(VEof))) >> \o if_equal

\* A type check that compares the tag and never leaves for err.
assert_type_without_jump(register, type) ==
    << Mov(R9, register),
       And(R9, Immediate(mask(type))),
       Cmp(R9, Immediate(type.tag)) >>

assert_type(register, type) ==
    << Mov(R9, register),
       And(R9, Immediate(mask(type))),
       Cmp(R9, Immediate(type.tag)),
       Jne(ERR_LABEL) >>

assert_int(register) == assert_type(register, INT_TYPE)
assert_char(register) == assert_type(register, CHAR_TYPE)
assert_box(register) == assert_type(register, BOX_TYPE)
assert_cons(register) == assert_type(register, CONS_TYPE)
assert_vector(register) == assert_type(register, VECTOR_TYPE)
assert_string(register) == assert_type(register, STRING_TYPE)
assert_closure(register) == assert_type(register, CLOSURE_TYPE)

assert_natural_number(register) ==
    assert_int(register)
    \o << Cmp(register, Immediate(encode(VInt(0)))), Jl(ERR_LABEL) >>

assert_codepoint ==
    assert_int(RAX)
    \o << Cmp(RAX, Immediate(encode(VInt(0)))), Jl(ERR_LABEL),
          Cmp(RAX, Immediate(encode(VInt(1114111)))), Jg(ERR_LABEL),
          Cmp(RAX, Immediate(encode(VInt(55295)))), Jl(<<"ok">>),
          Cmp(RAX, Immediate(encode(VInt(57344)))), Jg(<<"ok">>),
          Jmp(ERR_LABEL),
          Label(<<"ok">>) >>

assert_byte(register) ==
    assert_int(register)
    \o << Cmp(R9, Immediate(encode(VInt(0)))), Jl(ERR_LABEL),
          Cmp(R9, Immediate(encode(VInt(255)))), Jg(ERR_LABEL) >>

char_to_int == assert_char(RAX) \o cast_type(RAX, CHAR_TYPE, INT_TYPE)
int_to_char == assert_int(RAX) \o assert_codepoint \o cast_type(RAX, INT_TYPE, CHAR_TYPE)

compile_write_byte == assert_byte(RAX) \o << Mov(RDI, RAX) >> \o call(<<"write_byte">>)

(***************************************************************************)
(* compiler/arithmetic.rs                                                  *)
(***************************************************************************)
compile_add == assert_int(RAX) \o assert_int(R8) \o << Add(RAX, R8) >>
\* A subtraction that takes the first operand from the second.
compile_sub_second_first == assert_int(RAX) \o assert_int(R8) \o << Sub(RAX, R8) >>
compile_sub == assert_int(RAX) \o assert_int(R8) \o << Sub(R8, RAX), Mov(RAX, R8) >>
compile_add1 == assert_int(RAX) \o << Add(RAX, Immediate(encode(VInt(1)))) >>
compile_sub1 == assert_int(RAX) \o << Sub(RAX, Immediate(encode(VInt(1)))) >>
compile_is_zero == assert_int(RAX) \o << Cmp(RAX, Immediate(encode(VInt(0)))) >> \o if_equal
compile_int_equal == assert_int(RAX) \o assert_int(R8) \o << Cmp(RAX, R8) >> \o if_equal
compile_less_than == assert_int(RAX) \o assert_int(R8) \o << Cmp(RAX, R8) >> \o if_less_than

(***************************************************************************)
(* compiler/cons.rs and compiler/box_type.rs                               *)
(***************************************************************************)
compile_cons ==
    << Mov(Offset("rbx", 0), RAX),
       Mov(Offset("rbx", 8), R8),
       Mov(RAX, RBX),
       Or(RAX, Immediate(CONS_TYPE.tag)),
       Add(RBX, Immediate(16)) >>

compile_car == assert_cons(RAX) \o << Xor(RAX, Immediate(CONS_TYPE.tag)), Mov(RAX, Offset("rax", 8)) >>
compile_cdr == assert_cons(RAX) \o << Xor(RAX, Immediate(CONS_TYPE.tag)), Mov(RAX, Offset("rax", 0)) >>

\* A box that leaves the heap pointer where it is.
compile_box_in_place ==
    << Mov(Offset("rbx", 0), RAX),
       Mov(RAX, RBX),
       Or(RAX, Immediate(BOX_TYPE.tag)) >>

compile_box ==
    << Mov(Offset("rbx", 0), RAX),
       Mov(RAX, RBX),
       Or(RAX, Immediate(BOX_TYPE.tag)),
       Add(RBX, Immediate(8)) >>

compile_unbox == assert_box(RAX) \o << Xor(RAX, Immediate(BOX_TYPE.tag)), Mov(RAX, Offset("rax", 0)) >>

(***************************************************************************)
(* compiler/primitive_functions.rs: operator dispatch.                     *)
(***************************************************************************)
compile_prim0(op) ==
    CASE op = "ReadByte" -> compile_read_byte
      [] op = "PeekByte" -> compile_peek_byte

compile_op1(op) ==
    CASE op = "Add1" -> compile_add1
      [] op = "Sub1" -> compile_sub1
      [] op = "IsZero" -> compile_is_zero
      [] op = "IsChar" -> is_type(CHAR_TYPE)
      [] op = "IsBox" -> is_type(BOX_TYPE)
      [] op = "IsCons" -> is_type(CONS_TYPE)
      [] op = "IsVector" -> is_type(VECTOR_TYPE)
      [] op = "IsString" -> is_type(STRING_TYPE)
      [] op = "IsEof" -> is_eof
      [] op = "CharToInt" -> char_to_int
      [] op = "IntToChar" -> int_to_char
      [] op = "WriteByte" -> compile_write_byte
      [] op = "Box" -> compile_box
      [] op = "Unbox" -> compile_unbox
      [] op = "Car" -> compile_car
      [] op = "Cdr" -> compile_cdr

\* compile_op2 threads the compiler state: R(code, lab) is a statement list
\* together with Compiler::last_label_id after emitting it.
R(stmts, lab) == [code |-> stmts, lab |-> lab]

\* Compiler::new_label_id: increments the counter and returns its decimal text.
new_label_id(lab) == [id |-> ToString(lab + 1), lab |-> lab + 1]

\* the statements before, the statements of the part lowered as r, and the
\* statements after it, with the label counter that r leaves behind
Emit(before, r, after) == R(before \o r.code \o after, r.lab)

(***************************************************************************)
(* compiler/vector.rs                                                      *)
(***************************************************************************)
\* length in r8, initial value in rax
compile_make_vector(lab) ==
    LET l1 == new_label_id(lab)
        l2 == new_label_id(l1.lab)
        l3 == new_label_id(l2.lab)
        loop_label == format("loop", l1.id)
        end_label == format("end", l2.id)
        empty_label == format("empty", l3.id)
    IN R(assert_natural_number(R8)
         \o << Cmp(R8, Immediate(encode(VInt(0)))),
               Je(empty_label),
               Mov(R9, RBX),
               Or(R9, Immediate(VECTOR_TYPE.tag)),
               Sar(R8, Immediate(INT_TYPE.shift)),
               Mov(Offset("rbx", 0), R8),
               Add(RBX, Immediate(8)),
               Label(loop_label),
               Mov(Offset("rbx", 0), RAX),
               Add(RBX, Immediate(8)),
               Sub(R8, Immediate(1)),
               Cmp(R8, Immediate(0)),
               Jne(loop_label),
               Mov(RAX, R9),
               Jmp(end_label),
               Label(empty_label),
               Mov(RAX, Immediate(encode(VEmptyVector))),
               Label(end_label) >>,
         l3.lab)

\* vector in r8, index in rax
compile_vector_ref ==
    assert_vector(R8)
    \o assert_natural_number(RAX)
    \o << Cmp(R8, Immediate(encode(VEmptyVector))),
          Je(ERR_LABEL),
          Xor(R8, Immediate(VECTOR_TYPE.tag)),
          Mov(R9, Offset("r8", 0)),
          Sar(RAX, Immediate(INT_TYPE.shift)),
          Sub(R9, Immediate(1)),
          Cmp(R9, RAX),
          Jl(ERR_LABEL),
          Sal(RAX, Immediate(3)),
          Add(R8, RAX),
          Mov(RAX, Offset("r8", 8)) >>

\* A vector-set! that stores at the index without skipping the length word.
compile_vector_set_over_length ==
    << Pop(R10), Pop(R8) >>
    \o assert_vector(R8)
    \o assert_natural_number(R10)
    \o << Xor(R8, Immediate(VECTOR_TYPE.tag)),
          Mov(R9, Offset("r8", 0)),
          Sar(R10, Immediate(INT_TYPE.shift)),
          Sub(R9, Immediate(1)),
          Cmp(R9, R10),
          Jl(ERR_LABEL),
          Sal(R10, Immediate(3)),
          Add(R8, R10),
          Mov(Offset("r8", 0), RAX),
          Mov(RAX, Immediate(encode(VVoid))) >>

\* vector second of the stack, index topmost of the stack, new value in rax
compile_vector_set ==
    << Pop(R10), Pop(R8) >>
    \o assert_vector(R8)
    \o assert_natural_number(R10)
    \o << Xor(R8, Immediate(VECTOR_TYPE.tag)),
          Mov(R9, Offset("r8", 0)),
          Sar(R10, Immediate(INT_TYPE.shift)),
          Sub(R9, Immediate(1)),
          Cmp(R9, R10),
          Jl(ERR_LABEL),
          Sal(R10, Immediate(3)),
          Add(R8, R10),
          Mov(Offset("r8", 8), RAX),
          Mov(RAX, Immediate(encode(VVoid))) >>

(***************************************************************************)
(* compiler/string.rs                                                      *)
(***************************************************************************)
\* A make-string that advances one whole word per character.
compile_make_string_word_slots(lab) ==
    LET l1 == new_label_id(lab)
        l2 == new_label_id(l1.lab)
        l3 == new_label_id(l2.lab)
        loop_label == format("loop", l1.id)
        end_label == format("end", l2.id)
        empty_label == format("empty", l3.id)
    IN R(assert_natural_number(R8)
         \o assert_char(RAX)
         \o << Cmp(R8, Immediate(encode(VInt(0)))),
               Je(empty_label),
               Mov(R9, RBX),
               Or(R9, Immediate(STRING_TYPE.tag)),
               Sar(R8, Immediate(INT_TYPE.shift)),
               Mov(Offset("rbx", 0), R8),
               Add(RBX, Immediate(8)),
               Sar(RAX, Immediate(CHAR_TYPE.shift)),
               Add(R8, Immediate(1)),
               Sar(R8, Immediate(1)),
               Sal(R8, Immediate(1)),
               Label(loop_label),
               Mov(Offset("rbx", 0), EAX),
               Add(RBX, Immediate(8)),
               Sub(R8, Immediate(1)),
               Cmp(R8, Immediate(0)),
               Jne(loop_label),
               Mov(RAX, R9),
               Jmp(end_label),
               Label(empty_label),
               Mov(RAX, Immediate(encode(VEmptyString))),
               Label(end_label) >>,
         l3.lab)

\* length in r8, character in rax
compile_make_string(lab) ==
    LET l1 == new_label_id(lab)
        l2 == new_label_id(l1.lab)
        l3 == new_label_id(l2.lab)
        loop_label == format("loop", l1.id)
        end_label == format("end", l2.id)
        empty_label == format("empty", l3.id)
    IN R(assert_natural_number(R8)
         \o assert_char(RAX)
         \o << Cmp(R8, Immediate(encode(VInt(0)))),
               Je(empty_label),
               Mov(R9, RBX),
               Or(R9, Immediate(STRING_TYPE.tag)),
               Sar(R8, Immediate(INT_TYPE.shift)),
               Mov(Offset("rbx", 0), R8),
               Add(RBX, Immediate(8)),
               Sar(RAX, Immediate(CHAR_TYPE.shift)),
               Add(R8, Immediate(1)),
               Sar(R8, Immediate(1)),
               Sal(R8, Immediate(1)),
               Label(loop_label),
               Mov(Offset("rbx", 0), EAX),
               Add(RBX, Immediate(4)),
               Sub(R8, Immediate(1)),
               Cmp(R8, Immediate(0)),
               Jne(loop_label),
               Mov(RAX, R9),
               Jmp(end_label),
               Label(empty_label),
               Mov(RAX, Immediate(encode(VEmptyString))),
               Label(end_label) >>,
         l3.lab)

\* string in r8, index in rax
compile_string_ref ==
    assert_string(R8)
    \o assert_natural_number(RAX)
    \o << Cmp(R8, Immediate(encode(VEmptyString))),
          Je(ERR_LABEL),
          Xor(R8, Immediate(STRING_TYPE.tag)),
          Mov(R9, Offset("r8", 0)),
          Sar(RAX, Immediate(INT_TYPE.shift)),
          Sub(R9, Immediate(1)),
          Cmp(R9, RAX),
          Jl(ERR_LABEL),
          Sal(RAX, Immediate(2)),
          Add(R8, RAX),
          Mov(EAX, Offset("r8", 8)),
          Sal(RAX, Immediate(CHAR_TYPE.shift)),
          Xor(RAX, Immediate(CHAR_TYPE.tag)) >>

\* Compiler::string_literal_label: the static-data label interned for a
\* literal; one label per distinct string.
string_literal_label(string) == Some(format("string", ToString(string)))

compile_string_literal(string) ==
    LET label == string_literal_label(string)
    IN << LeaArithmetic(RAX, << label[1], STRING_TYPE.tag >>) >>

\* str::len: the length of the UTF-8 encoding, in bytes
utf8_len(c) == IF c < 128 THEN 1 ELSE IF c < 2048 THEN 2 ELSE IF c < 65536 THEN 3 ELSE 4

RECURSIVE str_len(_)
str_len(string) == IF string = <<>> THEN 0 ELSE utf8_len(Head(string)) + str_len(Tail(string))

compile_string_data(string) ==
    << Dq(str_len(string)) >> \o [i \in 1..Len(string) |-> Dd(string[i])]

compile_op2(op, lab) ==
    CASE op = "Add" -> R(compile_add, lab)
      [] op = "Sub" -> R(compile_sub, lab)
      [] op = "Equal" -> R(compile_int_equal, lab)
      [] op = "LessThan" -> R(compile_less_than, lab)
      [] op = "Cons" -> R(compile_cons, lab)
      [] op = "MakeVector" -> compile_make_vector(lab)
      [] op = "VectorRef" -> R(compile_vector_ref, lab)
      [] op = "MakeString" -> compile_make_string(lab)
      [] op = "StringRef" -> R(compile_string_ref, lab)

compile_op3(op, lab) ==
    CASE op = "VectorSet" -> R(compile_vector_set, lab)

(***************************************************************************)
(* mylang/ast.rs: expressions, patterns, literals and programs.            *)
(***************************************************************************)
LitInt(i) == [t |-> "Int", n |-> i]
LitBool(b) == [t |-> "Bool", b |-> b]
LitChar(c) == [t |-> "Char", c |-> c]
LitEmptyList == [t |-> "EmptyList"]
\* a string is the sequence of its characters (code points)
LitString(s) == [t |-> "String", s |-> s]

Expr_Eof == [k |-> "Eof"]
Expr_Lit(lit) == [k |-> "Lit", lit |-> lit]
Expr_Prim0(op) == [k |-> "Prim0", op |-> op]
Expr_Prim1(op, e) == [k |-> "Prim1", op |-> op, e |-> e]
Expr_Prim2(op, e1, e2) == [k |-> "Prim2", op |-> op, e1 |-> e1, e2 |-> e2]
Expr_Prim3(op, e1, e2, e3) == [k |-> "Prim3", op |-> op, e1 |-> e1, e2 |-> e2, e3 |-> e3]
Expr_Begin(e1, e2) == [k |-> "Begin", e1 |-> e1, e2 |-> e2]
Expr_Variable(id) == [k |-> "Variable", id |-> id]
Expr_Let(lhs, rhs, body) == [k |-> "Let", lhs |-> lhs, rhs |-> rhs, body |-> body]
Expr_App(function, args) == [k |-> "App", function |-> function, args |-> args]
Expr_If(cond, then, els) == [k |-> "If", cond |-> cond, then |-> then, els |-> els]
Expr_Match(expr, arms) == [k |-> "Match", expr |-> expr, arms |-> arms]
Arm(pattern, body) == [pattern |-> pattern, body |-> body]

Pattern_Wildcard == [k |-> "Wildcard"]
Pattern_Variable(id) == [k |-> "Variable", id |-> id]
Pattern_Lit(lit) == [k |-> "Lit", lit |-> lit]
Pattern_Cons(car, cdr) == [k |-> "Cons", car |-> car, cdr |-> cdr]
Pattern_Box(pattern) == [k |-> "Box", pattern |-> pattern]
Pattern_And(left, right) == [k |-> "And", left |-> left, right |-> right]

FunctionDefinition(name, params, body) == [name |-> name, params |-> params, body |-> body]
Program(function_definitions, expr) == [function_definitions |-> function_definitions, expr |-> expr]

\* impl Into<Lambda> for FunctionDefinition
Lambda(definition) == [id |-> definition.name, params |-> definition.params, body |-> definition.body]

Range(seq) == {seq[i] : i \in 1..Len(seq)}

(***************************************************************************)
(* compiler/function.rs: free_variables.  The result is a HashSet.         *)
(***************************************************************************)
RECURSIVE free_variables(_)
RECURSIVE free_variables_all(_)
free_variables_all(exprs) ==
    IF exprs = <<>> THEN {} ELSE free_variables(Head(exprs)) \cup free_variables_all(Tail(exprs))

free_variables(expr) ==
    CASE expr.k = "Variable" -> {expr.id}
      [] expr.k = "Prim1" -> free_variables(expr.e)
      [] expr.k = "Prim2" -> free_variables(expr.e1) \cup free_variables(expr.e2)
      [] expr.k = "Prim3" ->
            free_variables(expr.e1) \cup free_variables(expr.e2) \cup free_variables(expr.e3)
      [] expr.k = "Begin" -> free_variables(expr.e1) \cup free_variables(expr.e2)
      [] expr.k = "App" -> free_variables(expr.function) \cup free_variables_all(expr.args)
      [] expr.k = "If" ->
            free_variables(expr.cond) \cup free_variables(expr.then) \cup free_variables(expr.els)
      [] expr.k = "Match" ->
            free_variables(expr.expr)
            \cup free_variables_all([i \in 1..Len(expr.arms) |-> expr.arms[i].body])
      [] expr.k = "Let" ->
            (free_variables(expr.rhs) \cup free_variables(expr.body)) \ {expr.lhs}
      [] expr.k = "Lambda" -> free_variables(expr.body) \ Range(expr.params)
      [] expr.k \in {"Lit", "Eof", "Prim0"} -> {}

Expr_Lambda(lambda) == [k |-> "Lambda", id |-> lambda.id, params |-> lambda.params, body |-> lambda.body]

\* Iteration over a HashSet visits the elements in an order fixed by the
\* hasher state of that instance (std RandomState): any permutation of the
\* set.  iter(set, seed) is the permutation selected by the seed.
RECURSIVE nth(_, _)
nth(set, j) ==
    LET first == CHOOSE x \in set : TRUE
    IN IF j = 0 THEN first ELSE nth(set \ {first}, j - 1)

RECURSIVE iter(_, _)
iter(set, seed) ==
    IF set = {} THEN <<>>
    ELSE LET x == nth(set, seed % Cardinality(set))
         IN <<x>> \o iter(set \ {x}, seed \div Cardinality(set))

(***************************************************************************)
(* compiler/expr.rs, variable.rs, pattern_match.rs, function.rs: lowering. *)
(* Every operator takes Compiler::last_label_id as `lab` and returns        *)
(* R(statements, last_label_id afterwards).                                *)
(***************************************************************************)
\* Option::expect on a missing variable aborts the compilation; the aborted
\* statement list is marked by this pseudo-statement.
Panic == [op |-> "Panic"]

\* Lit -> Value, as in compile_literal and compare_literal
value_of_lit(lit) ==
    CASE lit.t = "Int" -> VInt(lit.n)
      [] lit.t = "Bool" -> VBool(lit.b)
      [] lit.t = "Char" -> VChar(lit.c)
      [] lit.t = "EmptyList" -> VEmptyList

compile_value(value) == << Mov(RAX, Immediate(encode(value))) >>
compile_literal(lit) ==
    IF lit.t = "String" THEN compile_string_literal(lit.s)
    ELSE compile_value(value_of_lit(lit))

compile_variable(variable, lab, env) ==
    LET pos == position(env, variable)
    IN IF pos = None THEN R(<< Panic >>, lab)
       ELSE R(<< Mov(RAX, Offset("rsp", pos[1] * 8)) >>, lab)

move_args_ascending(n_args, offset) ==
    IF n_args = 0 \/ offset = 0 THEN <<>>
    ELSE Flatten([j \in 1..n_args |->
                    LET i == j - 1
                    IN << Mov(R8, Offset("rsp", i * 8)),
                          Mov(Offset("rsp", (i + offset) * 8), R8) >>])
         \o << Add(RSP, Immediate(offset * 8)) >>

\* Moves the n_args top elements of the stack up by offset words.
move_args(n_args, offset) ==
    IF n_args = 0 \/ offset = 0 THEN <<>>
    ELSE Flatten([j \in 1..n_args |->
                    LET i == n_args - j
                    IN << Mov(R8, Offset("rsp", i * 8)),
                          Mov(Offset("rsp", (i + offset) * 8), R8) >>])
         \o << Add(RSP, Immediate(offset * 8)) >>

get_label(lambda) == format("lambda", lambda.id)

\* variables: a HashSet instance, given as the sequence of its iteration order
capture_variables(variables, env, offset) ==
    Flatten([j \in 1..Len(variables) |->
        LET i == j - 1
            current_offset == offset + 8 * i
            pos == position(env, variables[j])
        IN IF pos = None THEN << Panic >>
           ELSE << Mov(R8, Offset("rsp", 8 * pos[1])),
                   Mov(Offset("rbx", current_offset), R8) >>])

allocated_heap_size(lambda) == 8 + 8 * Cardinality(free_variables(Expr_Lambda(lambda)))

CP(stmts, env, lab) == [code |-> stmts, env |-> env, lab |-> lab]

RECURSIVE compile_expr(_, _, _, _)
RECURSIVE compile_args(_, _, _)
RECURSIVE compile_pattern(_, _, _, _)
RECURSIVE compile_match_arms(_, _, _, _, _)
RECURSIVE compile_match_arms_after(_, _, _, _, _)

compile_prim1(op, expr, lab, env) ==
    LET r == compile_expr(expr, lab, env, FALSE)
    IN R(r.code \o compile_op1(op), r.lab)

compile_prim2(op, first, second, lab, env) ==
    LET r1 == compile_expr(first, lab, env, FALSE)
        r2 == compile_expr(second, r1.lab, with_non_var(env), FALSE)
    IN Emit(r1.code \o << Push(RAX) >> \o r2.code \o << Pop(R8) >>,
            compile_op2(op, r2.lab),
            <<>>)

compile_prim3(op, first, second, third, lab, env) ==
    LET r1 == compile_expr(first, lab, env, FALSE)
        r2 == compile_expr(second, r1.lab, with_non_var(env), FALSE)
        r3 == compile_expr(third, r2.lab, with_non_var(with_non_var(env)), FALSE)
    IN Emit(r1.code \o << Push(RAX) >> \o r2.code \o << Push(RAX) >> \o r3.code,
            compile_op3(op, r3.lab),
            <<>>)

compile_begin_first_in_tail(first, second, lab, env, is_tail_expr) ==
    LET r1 == compile_expr(first, lab, env, is_tail_expr)
        r2 == compile_expr(second, r1.lab, env, is_tail_expr)
    IN R(r1.code \o r2.code, r2.lab)

compile_begin(first, second, lab, env, is_tail_expr) ==
    LET r1 == compile_expr(first, lab, env, FALSE)
        r2 == compile_expr(second, r1.lab, env, is_tail_expr)
    IN R(r1.code \o r2.code, r2.lab)

\* A lowering that takes the else branch unless the condition is #t.
compile_if_expr_unless_true(if_expr, lab, env, is_tail_expr) ==
    LET l == new_label_id(lab)
        else_label == format("else", l.id)
        end_label == format("end", l.id)
        c == compile_expr(if_expr.cond, l.lab, env, FALSE)
        t == compile_expr(if_expr.then, c.lab, env, is_tail_expr)
        e == compile_expr(if_expr.els, t.lab, env, is_tail_expr)
    IN R(c.code
         \o << Cmp(RAX, Immediate(encode(VBool(TRUE)))), Jne(else_label) >>
         \o t.code
         \o << Jmp(end_label), Label(else_label) >>
         \o e.code
         \o << Label(end_label) >>,
         e.lab)

compile_if_expr(if_expr, lab, env, is_tail_expr) ==
    LET l == new_label_id(lab)
        else_label == format("else", l.id)
        end_label == format("end", l.id)
        c == compile_expr(if_expr.cond, l.lab, env, FALSE)
        t == compile_expr(if_expr.then, c.lab, env, is_tail_expr)
        e == compile_expr(if_expr.els, t.lab, env, is_tail_expr)
    IN R(c.code
         \o << Cmp(RAX, Immediate(encode(VBool(FALSE)))), Je(else_label) >>
         \o t.code
         \o << Jmp(end_label), Label(else_label) >>
         \o e.code
         \o << Label(end_label) >>,
         e.lab)

compile_let(expr, lab, env, is_tail_expr) ==
    LET r1 == compile_expr(expr.rhs, lab, env, FALSE)
        new_env == with_var(env, expr.lhs)
        r2 == compile_expr(expr.body, r1.lab, new_env, is_tail_expr)
    IN R(r1.code \o << Push(RAX) >> \o r2.code \o << Add(RSP, Immediate(8)) >>, r2.lab)

(* pattern_match.rs *)
compile_wildcard_pattern(env, lab) == CP(<<>>, env, lab)

compile_variable_pattern(identifier, env, lab) == CP(<< Push(RAX) >>, with_var(env, identifier), lab)

\* compiler/string.rs: sets the flags by comparing the string in rax with
\* the given literal; the length compared is str::len, and no jump follows
\* the comparison of the lengths.
compare_strings(string, lab) ==
    LET l == new_label_id(lab)
        neq_label == format("string_neq", l.id)
    IN R(<< Mov(R9, RAX),
            And(R9, Immediate(mask(STRING_TYPE))),
            Cmp(R9, Immediate(STRING_TYPE.tag)),
            Jne(neq_label),
            Mov(R8, RAX),
            Xor(R8, Immediate(STRING_TYPE.tag)),
            Mov(R9, Offset("r8", 0)),
            Cmp(R9, Immediate(str_len(string))) >>
         \o Flatten([j \in 1..Len(string) |->
                << Mov(R9D, Immediate(string[j])),
                   Cmp(Offset("r8", 8 + 4 * (j - 1)), R9D),
                   Jne(neq_label) >>])
         \o << Label(neq_label) >>,
         l.lab)

compare_literal(lit, lab) ==
    IF lit.t = "String" THEN compare_strings(lit.s, lab)
    ELSE R(<< Cmp(RAX, Immediate(encode(value_of_lit(lit)))) >>, lab)

compile_literal_pattern(lit, lab, env, next_label) ==
    LET l == new_label_id(lab)
        matched_label == format("matched", l.id)
        c == compare_literal(lit, l.lab)
    IN CP(c.code
          \o << Je(matched_label),
                Add(RSP, Immediate(8 * len(env))),
                Jmp(next_label),
                Label(matched_label) >>,
          env, c.lab)

compile_box_pattern(pattern, lab, env, next_label) ==
    LET l == new_label_id(lab)
        matched_label == format("matched", l.id)
        subpattern == compile_pattern(pattern, l.lab, env, next_label)
    IN CP(<< Mov(R9, RAX),
             And(R9, Immediate(mask(BOX_TYPE))),
             Cmp(R9, Immediate(BOX_TYPE.tag)),
             Je(matched_label),
             Add(RSP, Immediate(8 * len(env))),
             Jmp(next_label),
             Label(matched_label),
             Xor(RAX, Immediate(BOX_TYPE.tag)),
             Mov(RAX, Offset("rax", 0)) >>
          \o subpattern.code,
          subpattern.env, subpattern.lab)

compile_cons_pattern(car, cdr, lab, outer_env, next_label) ==
    LET l == new_label_id(lab)
        matched_label == format("matched", l.id)
        env == with_non_var(outer_env)
        car_result == compile_pattern(car, l.lab, env, next_label)
        cdr_result == compile_pattern(cdr, car_result.lab, car_result.env, next_label)
    IN CP(<< Mov(R9, RAX),
             And(R9, Immediate(mask(CONS_TYPE))),
             Cmp(R9, Immediate(CONS_TYPE.tag)),
             Je(matched_label),
             Add(RSP, Immediate(8 * len(outer_env))),
             Jmp(next_label),
             Label(matched_label),
             Xor(RAX, Immediate(CONS_TYPE.tag)),
             Mov(R8, Offset("rax", 0)),
             Push(R8),
             Mov(RAX, Offset("rax", 8)) >>
          \o car_result.code
          \o << Mov(RAX, Offset("rsp", 8 * (len(car_result.env) - len(env)))) >>
          \o cdr_result.code,
          cdr_result.env, cdr_result.lab)

compile_and_pattern(left, right, lab, outer_env, next_label) ==
    LET env == with_non_var(outer_env)
        left_result == compile_pattern(left, lab, env, next_label)
        right_result == compile_pattern(right, left_result.lab, left_result.env, next_label)
    IN CP(<< Push(RAX) >>
          \o left_result.code
          \o << Mov(RAX, Offset("rsp", 8 * (len(left_result.env) - len(env)))) >>
          \o right_result.code,
          right_result.env, right_result.lab)

compile_pattern(pattern, lab, env, next_label) ==
    CASE pattern.k = "Wildcard" -> compile_wildcard_pattern(env, lab)
      [] pattern.k = "Variable" -> compile_variable_pattern(pattern.id, env, lab)
      [] pattern.k = "Lit" -> compile_literal_pattern(pattern.lit, lab, env, next_label)
      [] pattern.k = "Cons" -> compile_cons_pattern(pattern.car, pattern.cdr, lab, env, next_label)
      [] pattern.k = "Box" -> compile_box_pattern(pattern.pattern, lab, env, next_label)
      [] pattern.k = "And" -> compile_and_pattern(pattern.left, pattern.right, lab, env, next_label)

\* the rest of compile_match_arm once the pattern is lowered: p is the result
\* of compile_pattern, that is (pattern_code, bound_env).
compile_match_arm_body(arm, p, env, is_tail_expr, done_label, next_label) ==
    LET bound_env == p.env
        b == compile_expr(arm.body, p.lab, bound_env, is_tail_expr)
    IN R(p.code
         \o b.code
         \o << Add(RSP, Immediate(8 * (len(bound_env) - len(env)))),
               Jmp(done_label),
               Label(next_label) >>,
         b.lab)

compile_match_arm(arm, lab, env, is_tail_expr, done_label) ==
    LET l == new_label_id(lab)
        next_label == format("next", l.id)
    IN compile_match_arm_body(arm, compile_pattern(arm.pattern, l.lab, env, next_label),
                              env, is_tail_expr, done_label, next_label)

\* the loop over match_expr.arms in compile_match
compile_match_arms(arms, lab, env, is_tail_expr, done_label) ==
    IF arms = <<>> THEN R(<<>>, lab)
    ELSE compile_match_arms_after(
             compile_match_arm(Head(arms), lab, env, is_tail_expr, done_label),
             Tail(arms), env, is_tail_expr, done_label)

\* the iterations of the loop that follow the arm lowered as a
compile_match_arms_after(a, arms, env, is_tail_expr, done_label) ==
    LET rest == compile_match_arms(arms, a.lab, env, is_tail_expr, done_label)
    IN R(a.code \o rest.code, rest.lab)

compile_match(match_expr, lab, env, is_tail_expr) ==
    LET s == compile_expr(match_expr.expr, lab, env, FALSE)
        l == new_label_id(s.lab)
        done_label == format("done", l.id)
    IN Emit(s.code,
            compile_match_arms(match_expr.arms, l.lab, env, is_tail_expr, done_label),
            << Jmp(ERR_LABEL), Label(done_label) >>)

(* function.rs *)
\* the loop that lowers and pushes the arguments of an application
compile_args(args, lab, env) ==
    IF args = <<>> THEN R(<<>>, lab)
    ELSE LET new_env == with_non_var(env)
             a == compile_expr(Head(args), lab, new_env, FALSE)
             rest == compile_args(Tail(args), a.lab, new_env)
         IN R(a.code \o << Push(RAX) >> \o rest.code, rest.lab)

compile_function_application_non_tail(function_application, lab, outer_env) ==
    LET l == new_label_id(lab)
        return_label == format("function_return_site", l.id)
        n_args == Len(function_application.args)
        env == with_non_var(outer_env)
        f == compile_expr(function_application.function, l.lab, env, FALSE)
        a == compile_args(function_application.args, f.lab, env)
    IN R(<< Lea(RAX, return_label), Push(RAX) >>
         \o f.code
         \o assert_closure(RAX)
         \o << Push(RAX) >>
         \o a.code
         \o << Mov(RAX, Offset("rsp", 8 * n_args)),
               Xor(RAX, Immediate(CLOSURE_TYPE.tag)),
               Mov(RAX, Offset("rax", 0)),
               JmpRegister("rax"),
               Label(return_label) >>,
         a.lab)

compile_function_application_tail(function_application, lab, env) ==
    LET n_args == Len(function_application.args)
        n_env == len(env)
        f == compile_expr(function_application.function, lab, env, FALSE)
        a == compile_args(function_application.args, f.lab, env)
    IN R(f.code
         \o assert_closure(RAX)
         \o << Push(RAX) >>
         \o a.code
         \o move_args(n_args + 1, n_env)
         \o << Mov(RAX, Offset("rsp", 8 * n_args)),
               Xor(RAX, Immediate(CLOSURE_TYPE.tag)),
               Mov(RAX, Offset("rax", 0)),
               JmpRegister("rax") >>,
         a.lab)

compile_function_application(function_application, lab, env, is_tail_expr) ==
    IF is_tail_expr
    THEN compile_function_application_tail(function_application, lab, env)
    ELSE compile_function_application_non_tail(function_application, lab, env)

compile_expr(expr, lab, env, is_tail_expr) ==
    CASE expr.k = "Eof" -> R(compile_value(VEof), lab)
      [] expr.k = "Lit" -> R(compile_literal(expr.lit), lab)
      [] expr.k = "Prim0" -> R(compile_prim0(expr.op), lab)
      [] expr.k = "Prim1" -> compile_prim1(expr.op, expr.e, lab, env)
      [] expr.k = "Prim2" -> compile_prim2(expr.op, expr.e1, expr.e2, lab, env)
      [] expr.k = "Prim3" -> compile_prim3(expr.op, expr.e1, expr.e2, expr.e3, lab, env)
      [] expr.k = "Begin" -> compile_begin(expr.e1, expr.e2, lab, env, is_tail_expr)
      [] expr.k = "If" -> compile_if_expr(expr, lab, env, is_tail_expr)
      [] expr.k = "Match" -> compile_match(expr, lab, env, is_tail_expr)
      [] expr.k = "Variable" -> compile_variable(expr.id, lab, env)
      [] expr.k = "Let" -> compile_let(expr, lab, env, is_tail_expr)
      [] expr.k = "App" -> compile_function_application(expr, lab, env, is_tail_expr)

\* Labeled instructions defining a lambda.  seed fixes the iteration order of
\* the HashSet that free_variables returns to this call; every call gets a
\* HashSet of its own.
compile_lambda_definition(lambda, lab, seed) ==
    LET params == lambda.params
        free_vars == iter(free_variables(Expr_Lambda(lambda)), seed)
        env == extended(extended(with_non_var(VariablesTable_new), params), free_vars)
    IN Emit(<< Label(get_label(lambda)),
               Mov(RAX, Offset("rsp", 8 * Len(params))),
               Xor(RAX, Immediate(CLOSURE_TYPE.tag)) >>
            \o Flatten([j \in 1..Len(free_vars) |->
                          << Mov(R8, Offset("rax", 8 + 8 * (j - 1))), Push(R8) >>]),
            compile_expr(lambda.body, lab, env, TRUE),
            << Add(RSP, Immediate(8 * len(env))), Ret >>)

compile_define(function_definition, lab, seed) ==
    compile_lambda_definition(Lambda(function_definition), lab, seed)

RECURSIVE compile_defines_from(_, _, _)
RECURSIVE compile_defines_after(_, _, _)
\* orders: one iteration order for each definition
compile_defines_from(definitions, lab, orders) ==
    IF definitions = <<>> THEN R(<<>>, lab)
    ELSE compile_defines_after(compile_define(Head(definitions), lab, Head(orders)),
                               Tail(definitions), Tail(orders))

\* the definitions that follow the one lowered as d
compile_defines_after(d, definitions, orders) ==
    LET rest == compile_defines_from(definitions, d.lab, orders)
    IN R(d.code \o rest.code, rest.lab)

compile_defines(program, lab, orders) == compile_defines_from(program.function_definitions, lab, orders)

\* The lambda expressions of an expression, in the order of the text.
RECURSIVE all_lambdas_in_expr(_)
RECURSIVE all_lambdas_in_exprs(_)
all_lambdas_in_exprs(exprs) ==
    IF exprs = <<>> THEN <<>>
    ELSE all_lambdas_in_expr(Head(exprs)) \o all_lambdas_in_exprs(Tail(exprs))
all_lambdas_in_expr(expr) ==
    CASE expr.k = "Prim1" -> all_lambdas_in_expr(expr.e)
      [] expr.k = "Prim2" -> all_lambdas_in_exprs(<< expr.e1, expr.e2 >>)
      [] expr.k = "Prim3" -> all_lambdas_in_exprs(<< expr.e1, expr.e2, expr.e3 >>)
      [] expr.k = "Begin" -> all_lambdas_in_exprs(<< expr.e1, expr.e2 >>)
      [] expr.k = "App" -> all_lambdas_in_expr(expr.function) \o all_lambdas_in_exprs(expr.args)
      [] expr.k = "If" -> all_lambdas_in_exprs(<< expr.cond, expr.then, expr.els >>)
      [] expr.k = "Match" ->
            all_lambdas_in_expr(expr.expr)
            \o all_lambdas_in_exprs([i \in 1..Len(expr.arms) |-> expr.arms[i].body])
      [] expr.k = "Let" -> all_lambdas_in_exprs(<< expr.rhs, expr.body >>)
      [] expr.k = "Lambda" -> << [id |-> expr.id, params |-> expr.params, body |-> expr.body] >>
      [] expr.k \in {"Variable", "Lit", "Eof", "Prim0"} -> <<>>

all_lambdas(program) ==
    all_lambdas_in_exprs([i \in 1..Len(program.function_definitions) |->
                             program.function_definitions[i].body])
    \o all_lambdas_in_expr(program.expr)

\* Code blocks of all lambda expressions of the program.
\* orders: one iteration order for each lambda
RECURSIVE compile_lambdas_from(_, _, _)
RECURSIVE compile_lambdas_after(_, _, _)
compile_lambdas_from(lambdas, lab, orders) ==
    IF lambdas = <<>> THEN R(<<>>, lab)
    ELSE compile_lambdas_after(compile_lambda_definition(Head(lambdas), lab, Head(orders)),
                               Tail(lambdas), Tail(orders))

\* the lambdas that follow the one lowered as d
compile_lambdas_after(d, lambdas, orders) ==
    LET rest == compile_lambdas_from(lambdas, d.lab, orders)
    IN R(d.code \o rest.code, rest.lab)

compile_lambda_definitions(program, lab, orders) ==
    compile_lambdas_from(all_lambdas(program), lab, orders)

\* Creates the closure of a lambda expression and sets rax to its tagged
\* pointer.  seed fixes the iteration order of the HashSet of this call.
compile_closure(lambda, env, seed) ==
    << Lea(RAX, get_label(lambda)), Mov(Offset("rbx", 0), RAX) >>
    \o capture_variables(iter(free_variables(Expr_Lambda(lambda)), seed), env, 8)
    \o << Mov(RAX, RBX),
          Or(RAX, Immediate(CLOSURE_TYPE.tag)),
          Add(RBX, Immediate(8 * (Cardinality(free_variables(Expr_Lambda(lambda))) + 1))) >>

defined_ids(program) ==
    [i \in 1..Len(program.function_definitions) |-> program.function_definitions[i].name]

\* offset of the closure of the i-th definition (1-based) from rbx
RECURSIVE closure_offset(_, _)
closure_offset(definitions, i) ==
    IF i = 1 THEN 0
    ELSE closure_offset(definitions, i - 1) + allocated_heap_size(Lambda(definitions[i - 1]))

allocate_closures(definitions) ==
    Flatten([i \in 1..Len(definitions) |->
        LET lambda == Lambda(definitions[i])
            offset == closure_offset(definitions, i)
        IN << Lea(RAX, get_label(lambda)),
              Mov(Offset("rbx", offset), RAX),
              Mov(RAX, RBX),
              Add(RAX, Immediate(offset)),
              Or(RAX, Immediate(CLOSURE_TYPE.tag)),
              Push(RAX) >>])

\* orders: one iteration order for each definition
init_closures(definitions, env, orders) ==
    Flatten([i \in 1..Len(definitions) |->
        LET lambda == Lambda(definitions[i])
            free_vars == iter(free_variables(Expr_Lambda(lambda)), orders[i])
            offset == 8 + closure_offset(definitions, i)
        IN capture_variables(free_vars, env, offset)])

RECURSIVE SumSizes(_)
SumSizes(definitions) ==
    IF definitions = <<>> THEN 0
    ELSE allocated_heap_size(Lambda(Head(definitions))) + SumSizes(Tail(definitions))

compile_closures_for_defines(program, orders) ==
    LET definitions == program.function_definitions
        env == extended(VariablesTable_new, defined_ids(program))
    IN allocate_closures(definitions)
       \o init_closures(definitions, env, orders)
       \o << Add(RBX, Immediate(SumSizes(definitions))) >>

(* string.rs: the string literals of a program, a HashSet *)
RECURSIVE string_literals(_)
RECURSIVE string_literals_all(_)
string_literals_all(exprs) ==
    IF exprs = <<>> THEN {} ELSE string_literals(Head(exprs)) \cup string_literals_all(Tail(exprs))

string_literals(expr) ==
    CASE expr.k = "Lit" -> IF expr.lit.t = "String" THEN {expr.lit.s} ELSE {}
      [] expr.k = "Prim1" -> string_literals(expr.e)
      [] expr.k = "Prim2" -> string_literals(expr.e1) \cup string_literals(expr.e2)
      [] expr.k = "Prim3" ->
            string_literals(expr.e1) \cup string_literals(expr.e2) \cup string_literals(expr.e3)
      [] expr.k = "Begin" -> string_literals(expr.e1) \cup string_literals(expr.e2)
      [] expr.k = "App" -> string_literals(expr.function) \cup string_literals_all(expr.args)
      [] expr.k = "If" ->
            string_literals(expr.cond) \cup string_literals(expr.then) \cup string_literals(expr.els)
      [] expr.k = "Match" ->
            string_literals(expr.expr)
            \cup string_literals_all([i \in 1..Len(expr.arms) |-> expr.arms[i].body])
      [] expr.k = "Let" -> string_literals(expr.rhs) \cup string_literals(expr.body)
      [] expr.k = "Lambda" -> string_literals(expr.body)
      [] expr.k \in {"Variable", "Eof", "Prim0"} -> {}

all_string_literals(program) ==
    string_literals_all([i \in 1..Len(program.function_definitions) |->
                            program.function_definitions[i].body])
    \cup string_literals(program.expr)

\* strings: Compiler::string_literals(), the interned literals in the order
\* the table yields them
compile_all_string_data(strings) ==
    Flatten([i \in 1..Len(strings) |->
        << Label(string_literal_label(strings[i])[1]) >> \o compile_string_data(strings[i])])

compile_data_section(strings) == << Data >> \o compile_all_string_data(strings)

(***************************************************************************)
(* compiler.rs, compile: the entry label, the heap base moved into rbx,    *)
(* the statements of the main expression, ret, the error handler.  main is *)
(* the statement list which compile_expr returned for program.expr         *)
(* (compiler.rs 100).                                                      *)
(***************************************************************************)
compile_entry ==
    << Global(<<"entry">>) >> \o externals
    \o << Label(<<"entry">>), Mov(RBX, RDI) >>

compile_blocks(head, main) == head \o main \o << Ret >> \o compile_error_handler

compile(main) == compile_blocks(compile_entry, main)

(***************************************************************************)
(* The layout of a whole program.  compile of compiler.rs reads            *)
(* program.expr only and lowers it with the compile_expr of compiler.rs;   *)
(* the top level that goes with the modules of compiler/ is not part of    *)
(* this snapshot.  A program is laid out here as compile lays it out, with *)
(* the main expression lowered by compile_expr of compiler/expr.rs outside *)
(* tail position, and with the parts which section 4.2 adds for defines    *)
(* and string literals (items 4, 6, 7, 9) composed from the functions of   *)
(* compiler/function.rs and compiler/static_data.rs: the closures of the   *)
(* defines in front of the main expression, the release of their slots     *)
(* behind it, the code blocks and the data section behind the statements   *)
(* of compile.  Each of these parts is empty for a program without defines *)
(* and string literals.                                                    *)
(* s.cap[i] and s.pro[i] are the iteration orders of the HashSets built    *)
(* for the i-th define by init_closures and by compile_lambda_definition,  *)
(* s.lam[i] the one of the HashSet built for the i-th lambda expression,   *)
(* s.str the one of the HashSet built by all_string_literals.              *)
(***************************************************************************)
\* section 4.2 item 4: the closures of the defines, one stack slot each
compile_define_closures(program, s) ==
    IF program.function_definitions = <<>> THEN <<>>
    ELSE compile_closures_for_defines(program, s.cap)

\* section 4.2 item 6: the slots of the closures of the defines are released
release_define_closures(program) ==
    IF program.function_definitions = <<>> THEN <<>>
    ELSE << Add(RSP, Immediate(8 * Len(program.function_definitions))) >>

\* section 4.2 item 7: the code blocks of the defines, then those of the
\* lambda expressions
compile_lambda_blocks(program, defines, s) ==
    defines.code \o compile_lambda_definitions(program, defines.lab, s.lam).code
compile_function_blocks(program, lab, s) ==
    compile_lambda_blocks(program, compile_defines(program, lab, s.pro), s)

\* section 4.2 item 9: the data section of the string literals
compile_string_literals(program, s) ==
    IF all_string_literals(program) = {} THEN <<>>
    ELSE compile_data_section(iter(all_string_literals(program), s.str))

\* closures: the statements of item 4; body: the lowered main expression.
\* main_start and main_end are the indices of the first statement of the
\* main expression and of the first statement behind it.
program_blocks(program, s, closures, body) ==
    [code |-> compile(closures \o body.code \o release_define_closures(program))
              \o compile_function_blocks(program, body.lab, s)
              \o compile_string_literals(program, s),
     main_start |-> Len(compile_entry) + Len(closures) + 1,
     main_end |-> Len(compile_entry) + Len(closures) + Len(body.code) + 1]

program_layout(program, s) ==
    program_blocks(program, s, compile_define_closures(program, s),
                   compile_expr(program.expr, 0,
                                extended(VariablesTable_new, defined_ids(program)), FALSE))

(***************************************************************************)
(* The machine that runs the emitted statements.                           *)
(***************************************************************************)
HeapBase == 512 * 8
DataBase == 256 * 8
StackTop == 1024 * 16
CodeBase == 4096 * 16
RuntimeWords == 2 * 3
EntryRsp == StackTop - 8 * (RuntimeWords + 1)
RbxAtEntry == CodeBase - 1
R15AtEntry == CodeBase - 2
RuntimeRet == CodeBase

StackAddrs == {StackTop - 8 * i : i \in 1..StackWords}
HeapAddrs == {HeapBase + 8 * i : i \in 0..(HeapWords - 1)}
DataAddrs == {DataBase + 8 * i : i \in 0..(DataWords - 1)}
RegNames == {"rax", "rbx", "rsp", "rdi", "r8", "r9", "r10", "r15"}

\* Memory is kept in 32-bit cells.  A 64-bit word at address a occupies the
\* cells a (low half) and a + 4 (high half); every 64-bit quantity of the
\* model lies within 32 bits, so its high half is its sign extension.
Cells(words) == words \cup {a + 4 : a \in words}
Hi(v) == IF v < 0 THEN 0 - 1 ELSE 0

Cur == code[pc]
Running == status = "run" /\ steps < MaxSteps /\ pc \in 1..Len(code)

Valid(a) == a \in DOMAIN mem /\ (a + 4) \in DOMAIN mem
Whole(a) == mem[a + 4] = Hi(mem[a])
EA(o) == regs[o.r] + o.d
Accessible(o) == o.k # "Offset" \/ Valid(EA(o))
\* eax and r9d are the low halves of rax and r9
Wide(r) == IF r = "eax" THEN "rax" ELSE IF r = "r9d" THEN "r9" ELSE r
Val(o) ==
    CASE o.k = "Register" -> regs[Wide(o.r)]
      [] o.k = "Immediate" -> o.v
      [] o.k = "Offset" -> mem[EA(o)]

RegsWith(o, v) == IF o.k = "Register" THEN [regs EXCEPT ![Wide(o.r)] = v] ELSE regs
Store(m, a, v) == [m EXCEPT ![a] = v, ![a + 4] = Hi(v)]
MemWith(o, v) == IF o.k = "Offset" THEN Store(mem, EA(o), v) ELSE mem

Sign(v) == IF v < 0 THEN "lt" ELSE IF v = 0 THEN "eq" ELSE "gt"

HasLabel(name) == \E i \in 1..Len(code) : code[i] = Label(name)
LabelIndex(name) == Min({i \in 1..Len(code) : code[i] = Label(name)})
CodeAddr(i) == CodeBase + i
IsCodeAddr(a) == (a - CodeBase) \in 1..Len(code) /\ code[a - CodeBase].op = "Label"

IsReturnSite(name) == Len(name) = 2 /\ name[1] = "function_return_site"
IsLambdaLabel(name) == Len(name) = 2 /\ name[1] = "lambda"

Top(stack) == stack[Len(stack)]
Drop(stack) == SubSeq(stack, 1, Len(stack) - 1)

Advance(r, m, f, p) ==
    /\ regs' = r
    /\ mem' = m
    /\ flags' = f
    /\ pc' = p
    /\ steps' = steps + 1
    /\ UNCHANGED <<prog, seeds, code, code2, status, out, inp, marks>>

Stop(s) ==
    /\ status' = s
    /\ steps' = steps + 1
    /\ UNCHANGED <<prog, seeds, code, code2, pc, regs, flags, mem, out, inp, calls, marks>>

\* The data section: dq and dd lines are laid out one after the other from
\* DataBase on, a label stands for the address of the line that follows it.
RECURSIVE Bytes(_, _, _)
Bytes(c, i, j) ==
    IF i > j THEN 0
    ELSE (CASE c[i].op = "Dq" -> 8 [] c[i].op = "Dd" -> 4 [] OTHER -> 0) + Bytes(c, i + 1, j)

DataIndex(c) ==
    IF \E i \in 1..Len(c) : c[i] = Data THEN Min({i \in 1..Len(c) : c[i] = Data})
    ELSE Len(c) + 1
DataAddr(c, i) == DataBase + Bytes(c, DataIndex(c), i - 1)

\* memory with the data section of c loaded
Loaded(m, c) ==
    [a \in DOMAIN m |->
        IF a \in Cells(DataAddrs)
        THEN IF \E i \in DataIndex(c)..Len(c) :
                    c[i].op \in {"Dq", "Dd"} /\ DataAddr(c, i) = a
             THEN c[CHOOSE i \in DataIndex(c)..Len(c) :
                        c[i].op \in {"Dq", "Dd"} /\ DataAddr(c, i) = a].value
             ELSE 0
        ELSE m[a]]

\* Test cases: a program, the bytes on its standard input, and (optionally)
\* the value the language semantics assigns to its main expression.
Case(tag, program, input, expect) ==
    [tag |-> tag, program |-> program, input |-> input, expect |-> expect]

\* Lowers the chosen program twice (two invocations of compile) and enters
\* the emitted code the way the runtime does: return address on the stack,
\* heap pointer in rdi.
Compile ==
    /\ status = "init"
    /\ \E l \in {program_layout(prog.program, seeds[1])} :
          /\ code' = l.code
          /\ marks' = [main_start |-> l.main_start, main_end |-> l.main_end]
          /\ status' = IF \E i \in 1..Len(l.code) : l.code[i] = Panic THEN "panic" ELSE "run"
          /\ pc' = Min({i \in 1..Len(l.code) : l.code[i] = Label(<<"entry">>)})
          /\ mem' = Loaded(mem, l.code)
    /\ code2' = program_layout(prog.program, seeds[2]).code
    /\ steps' = steps + 1
    /\ UNCHANGED <<prog, seeds, regs, flags, out, inp, calls>>

\* Label, global and extern lines emit no machine code.  Arriving at a
\* return site closes the innermost open call sequence.
ExecDirective ==
    /\ Running
    /\ Cur.op \in {"Label", "Global", "Extern"}
    /\ calls' = IF Cur.op = "Label" /\ IsReturnSite(Cur.name) /\ calls # <<>>
                THEN Drop(calls) ELSE calls
    /\ Advance(regs, mem, flags, pc + 1)

\* eax is the low half of rax: a store from eax writes one cell, a load into
\* eax clears the high half of rax.  A quantity that does not fit the width
\* of the model stops the run with status "wide".
Dword(o) == o.k = "Register" /\ o.r \in {"eax", "r9d"}

ExecMov ==
    /\ Running
    /\ Cur.op = "Mov"
    /\ UNCHANGED calls
    /\ IF Dword(Cur.src)
       THEN IF EA(Cur.dest) \in DOMAIN mem
            THEN Advance(regs, [mem EXCEPT ![EA(Cur.dest)] = Val(Cur.src)], flags, pc + 1)
            ELSE Stop("fault")
       ELSE IF Dword(Cur.dest) /\ Cur.src.k = "Offset"
       THEN IF EA(Cur.src) \notin DOMAIN mem THEN Stop("fault")
            ELSE IF mem[EA(Cur.src)] < 0 THEN Stop("wide")
            ELSE Advance(RegsWith(Cur.dest, mem[EA(Cur.src)]), mem, flags, pc + 1)
       ELSE IF Dword(Cur.dest)
       THEN Advance(RegsWith(Cur.dest, Val(Cur.src)), mem, flags, pc + 1)
       ELSE IF ~(Accessible(Cur.src) /\ Accessible(Cur.dest)) THEN Stop("fault")
       ELSE IF Cur.src.k = "Offset" /\ ~Whole(EA(Cur.src)) THEN Stop("wide")
       ELSE Advance(RegsWith(Cur.dest, Val(Cur.src)), MemWith(Cur.dest, Val(Cur.src)),
                    flags, pc + 1)

AluResult(op, a, b) ==
    CASE op = "Add" -> a + b
      [] op = "Sub" -> a - b
      [] op = "And" -> And64(a, b)
      [] op = "Or" -> Or64(a, b)
      [] op = "Xor" -> Xor64(a, b)
      [] op = "Sar" -> a \div Pow2(b)
      [] op = "Sal" -> a * Pow2(b)

ExecAlu ==
    /\ Running
    /\ Cur.op \in {"Add", "Sub", "And", "Or", "Xor", "Sar", "Sal"}
    /\ UNCHANGED calls
    /\ IF Accessible(Cur.src) /\ Accessible(Cur.dest)
       THEN LET v == AluResult(Cur.op, Val(Cur.dest), Val(Cur.src))
            IN Advance(RegsWith(Cur.dest, v), MemWith(Cur.dest, v), Sign(v), pc + 1)
       ELSE Stop("fault")

ExecCmp ==
    /\ Running
    /\ Cur.op = "Cmp"
    /\ UNCHANGED calls
    /\ IF Dword(Cur.src)
       THEN IF EA(Cur.dest) \in DOMAIN mem
            THEN Advance(regs, mem, Sign(mem[EA(Cur.dest)] - Val(Cur.src)), pc + 1)
            ELSE Stop("fault")
       ELSE IF Accessible(Cur.src) /\ Accessible(Cur.dest)
       THEN Advance(regs, mem, Sign(Val(Cur.dest) - Val(Cur.src)), pc + 1)
       ELSE Stop("fault")

ExecCmov ==
    /\ Running
    /\ Cur.op \in {"Cmove", "Cmovl"}
    /\ UNCHANGED calls
    /\ IF Accessible(Cur.src)
       THEN LET taken == IF Cur.op = "Cmove" THEN flags = "eq" ELSE flags = "lt"
            IN Advance(IF taken THEN RegsWith(Cur.dest, Val(Cur.src)) ELSE regs,
                       mem, flags, pc + 1)
       ELSE Stop("fault")

JumpTaken(op) ==
    CASE op = "Jmp" -> TRUE
      [] op = "Je" -> flags = "eq"
      [] op = "Jne" -> flags # "eq"
      [] op = "Jg" -> flags = "gt"
      [] op = "Jl" -> flags = "lt"

ExecJump ==
    /\ Running
    /\ Cur.op \in {"Jmp", "Je", "Jne", "Jg", "Jl"}
    /\ UNCHANGED calls
    /\ IF ~JumpTaken(Cur.op) THEN Advance(regs, mem, flags, pc + 1)
       ELSE IF HasLabel(Cur.label) THEN Advance(regs, mem, flags, LabelIndex(Cur.label))
       ELSE Stop("fault")

\* The indirect jump that ends a call sequence.  The argument count of the
\* site is read off the closure load three statements earlier, the callee's
\* parameter count off the closure load that opens its code block.
SiteArgs(i) == code[i - 3].src.d \div 8
CalleeParams(t) == code[t + 1].src.d \div 8
IsTailJump(i) ==
    ~(i < Len(code) /\ code[i + 1].op = "Label" /\ IsReturnSite(code[i + 1].name))

ExecJmpRegister ==
    /\ Running
    /\ Cur.op = "JmpRegister"
    /\ IF IsCodeAddr(regs[Cur.r])
       THEN LET t == regs[Cur.r] - CodeBase
                m == IsLambdaLabel(code[t].name) /\ SiteArgs(pc) = CalleeParams(t)
            IN /\ calls' = IF calls = <<>> THEN calls
                           ELSE [calls EXCEPT ![Len(calls)].arity =
                                    IF IsTailJump(pc) THEN @ /\ m ELSE m]
               /\ Advance(regs, mem, flags, t)
       ELSE Stop("fault")

ExecPush ==
    /\ Running
    /\ Cur.op = "Push"
    /\ UNCHANGED calls
    /\ IF Accessible(Cur.src) /\ Valid(regs.rsp - 8)
       THEN Advance([regs EXCEPT !.rsp = regs.rsp - 8],
                    Store(mem, regs.rsp - 8, Val(Cur.src)), flags, pc + 1)
       ELSE Stop("fault")

ExecPop ==
    /\ Running
    /\ Cur.op = "Pop"
    /\ UNCHANGED calls
    /\ IF Valid(regs.rsp)
       THEN Advance([RegsWith(Cur.dest, mem[regs.rsp]) EXCEPT !.rsp = regs.rsp + 8],
                    mem, flags, pc + 1)
       ELSE Stop("fault")

\* lea of a return site opens a call sequence: rsp is still the value it
\* had before the sequence.
ExecLea ==
    /\ Running
    /\ Cur.op = "Lea"
    /\ HasLabel(Cur.label)
    /\ calls' = IF IsReturnSite(Cur.label)
                THEN Append(calls, [site |-> Cur.label, rsp |-> regs.rsp, arity |-> TRUE])
                ELSE calls
    /\ Advance(RegsWith(Cur.dest, CodeAddr(LabelIndex(Cur.label))), mem, flags, pc + 1)

\* lea rax, [label + tag] of a record of the data section
ExecLeaArithmetic ==
    /\ Running
    /\ Cur.op = "LeaArithmetic"
    /\ HasLabel(Cur.expr[1])
    /\ UNCHANGED calls
    /\ Advance(RegsWith(Cur.dest, DataAddr(code, LabelIndex(Cur.expr[1])) + Cur.expr[2]),
               mem, flags, pc + 1)

\* The runtime functions of section 6.
ExecCall ==
    /\ Running
    /\ Cur.op = "Call"
    /\ regs' = CASE Cur.label = <<"read_byte">> ->
                      [regs EXCEPT !.rax = IF inp = <<>> THEN encode(VEof)
                                           ELSE encode(VInt(Head(inp)))]
                 [] Cur.label = <<"peek_byte">> ->
                      [regs EXCEPT !.rax = IF inp = <<>> THEN encode(VEof)
                                           ELSE encode(VInt(Head(inp)))]
                 [] Cur.label = <<"write_byte">> -> [regs EXCEPT !.rax = encode(VVoid)]
                 [] OTHER -> regs
    /\ inp' = IF Cur.label = <<"read_byte">> /\ inp # <<>> THEN Tail(inp) ELSE inp
    /\ out' = IF Cur.label = <<"write_byte">> THEN Append(out, regs.rdi) ELSE out
    /\ status' = IF Cur.label = <<"raise_error">> THEN "err" ELSE status
    /\ pc' = pc + 1
    /\ steps' = steps + 1
    /\ UNCHANGED <<prog, seeds, code, code2, flags, mem, calls, marks>>

ExecRet ==
    /\ Running
    /\ Cur.op = "Ret"
    /\ UNCHANGED calls
    /\ IF ~Valid(regs.rsp) THEN Stop("fault")
       ELSE IF mem[regs.rsp] = RuntimeRet
       THEN /\ status' = "done"
            /\ regs' = [regs EXCEPT !.rsp = regs.rsp + 8]
            /\ steps' = steps + 1
            /\ UNCHANGED <<prog, seeds, code, code2, pc, flags, mem, out, inp, marks>>
       ELSE IF IsCodeAddr(mem[regs.rsp])
       THEN Advance([regs EXCEPT !.rsp = regs.rsp + 8], mem, flags, mem[regs.rsp] - CodeBase)
       ELSE Stop("fault")

(***************************************************************************)
(* Reading a result back: the value a machine word stands for.             *)
(***************************************************************************)
VBox(v) == [t |-> "Box", v |-> v]
VCons(a, d) == [t |-> "Cons", a |-> a, d |-> d]
VVector(elems) == [t |-> "Vector", elems |-> elems]
VString(chars) == [t |-> "String", chars |-> chars]
VOther(w) == [t |-> "Other", w |-> w]
DecodeDepth == 3

RECURSIVE Decode(_, _)
Decode(w, depth) ==
    LET ptr == w - (w % Pow2(IMMEDIATE_SHIFT))
        tag == w % Pow2(IMMEDIATE_SHIFT)
    IN CASE w % Pow2(INT_TYPE.shift) = INT_TYPE.tag -> VInt(w \div Pow2(INT_TYPE.shift))
         [] w % Pow2(CHAR_TYPE.shift) = CHAR_TYPE.tag -> VChar(w \div Pow2(CHAR_TYPE.shift))
         [] w = TRUE_TYPE -> VBool(TRUE)
         [] w = FALSE_TYPE -> VBool(FALSE)
         [] w = EOF_TYPE -> VEof
         [] w = VOID_TYPE -> VVoid
         [] w = EMPTY_TYPE -> VEmptyList
         [] tag = BOX_TYPE.tag /\ depth > 0 /\ ptr \in HeapAddrs ->
                VBox(Decode(mem[ptr], depth - 1))
         [] tag = CONS_TYPE.tag /\ depth > 0 /\ ptr \in HeapAddrs /\ (ptr + 8) \in HeapAddrs ->
                VCons(Decode(mem[ptr + 8], depth - 1), Decode(mem[ptr], depth - 1))
         [] w = VECTOR_TYPE.tag -> VEmptyVector
         [] w = STRING_TYPE.tag -> VEmptyString
         [] tag = VECTOR_TYPE.tag /\ depth > 0 /\ ptr \in HeapAddrs
            /\ \A i \in 1..mem[ptr] : (ptr + 8 * i) \in HeapAddrs ->
                VVector([i \in 1..mem[ptr] |-> Decode(mem[ptr + 8 * i], depth - 1)])
         [] tag = STRING_TYPE.tag /\ ptr \in DOMAIN mem
            /\ \A i \in 1..mem[ptr] : (ptr + 4 + 4 * i) \in DOMAIN mem ->
                VString([i \in 1..mem[ptr] |-> mem[ptr + 4 + 4 * i]])
         [] OTHER -> VOther(w)

AtMainStart == status = "run" /\ pc = marks.main_start
AtMainEnd == status = "run" /\ pc = marks.main_end
NDefs == Len(prog.program.function_definitions)
MainRsp == EntryRsp - 8 * NDefs
Result == Decode(regs.rax, DecodeDepth)

(***************************************************************************)
(* Programs.  expect is the value the language semantics of section 3.3    *)
(* gives to the main expression, or "err" where it is the error exit.      *)
(***************************************************************************)
Num(n) == Expr_Lit(LitInt(n))
Bool(b) == Expr_Lit(LitBool(b))
Var(x) == Expr_Variable(x)
Main(e) == Program(<<>>, e)
WriteByte(n) == Expr_Prim1("WriteByte", Num(n))

Operands == (0 - MaxOperand)..MaxOperand

\* source text of a value, and the value of a literal
RECURSIVE ValueExpr(_)
ValueExpr(v) ==
    CASE v.t = "Int" -> Num(v.n)
      [] v.t = "Boolean" -> Bool(v.b)
      [] v.t = "Char" -> Expr_Lit(LitChar(v.c))
      [] v.t = "EmptyList" -> Expr_Lit(LitEmptyList)
      [] v.t = "Box" -> Expr_Prim1("Box", ValueExpr(v.v))
      [] v.t = "Cons" -> Expr_Prim2("Cons", ValueExpr(v.a), ValueExpr(v.d))

\* section 3.3: when a pattern matches a value
RECURSIVE Matches(_, _)
Matches(p, v) ==
    CASE p.k = "Wildcard" -> TRUE
      [] p.k = "Variable" -> TRUE
      [] p.k = "Lit" -> v = value_of_lit(p.lit)
      [] p.k = "Box" -> v.t = "Box" /\ Matches(p.pattern, v.v)
      [] p.k = "Cons" -> v.t = "Cons" /\ Matches(p.car, v.a) /\ Matches(p.cdr, v.d)
      [] p.k = "And" -> Matches(p.left, v) /\ Matches(p.right, v)

\* expressions under an empty and under a non-empty environment
ExprCases ==
    { Case("expr", Main(Num(7)), <<>>, VInt(7)),
      Case("expr", Main(Expr_Prim1("Add1", Expr_Prim2("Add", Num(1), Num(2)))), <<>>, VInt(4)),
      Case("expr", Main(Expr_Begin(WriteByte(97), Expr_Prim0("ReadByte"))), <<5>>, VInt(5)),
      Case("expr", Main(Expr_Begin(Expr_Prim0("PeekByte"), Expr_Prim0("ReadByte"))), <<>>, VEof),
      Case("expr", Main(Expr_Prim1("CharToInt", Expr_Prim1("IntToChar", Num(97)))), <<>>, VInt(97)),
      Case("expr", Main(Expr_Let("x", Num(1), Expr_Prim2("Add", Var("x"), Num(2)))), <<>>, VInt(3)),
      Case("expr", Main(Expr_Let("x", Num(1),
                          Expr_Let("y", Num(2), Expr_Prim2("Sub", Var("x"), Var("y"))))),
           <<>>, VInt(0 - 1)),
      Case("expr", Main(Expr_Let("x", Expr_Prim2("Cons", Num(1), Num(2)),
                          Expr_Prim2("Add", Expr_Prim1("Car", Var("x")),
                                            Expr_Prim1("Cdr", Var("x"))))), <<>>, VInt(3)),
      Case("expr", Main(Expr_Let("x", Num(1),
                          Expr_If(Expr_Prim1("IsZero", Var("x")), Num(1), Var("x")))),
           <<>>, VInt(1)),
      Case("expr", Main(Expr_Match(Num(2), << Arm(Pattern_Lit(LitInt(1)), Num(10)),
                                              Arm(Pattern_Variable("y"), Var("y")) >>)),
           <<>>, VInt(2)),
      Case("expr", Main(Expr_Let("x", Num(1),
                          Expr_Match(Var("x"), << Arm(Pattern_Lit(LitInt(1)), Num(10)),
                                                  Arm(Pattern_Wildcard, Num(5)) >>))),
           <<>>, VInt(10)),
      Case("expr", Main(Expr_Let("x", Num(1),
                          Expr_Match(Var("x"), << Arm(Pattern_Lit(LitInt(2)), Num(0)),
                                                  Arm(Pattern_Wildcard, Num(5)) >>))),
           <<>>, VInt(5)),
      Case("expr", Main(Expr_Let("x", Expr_Prim1("Box", Num(3)),
                          Expr_Match(Var("x"),
                            << Arm(Pattern_Box(Pattern_Variable("y")),
                                   Expr_Prim2("Add", Var("y"), Expr_Prim1("Unbox", Var("x")))),
                               Arm(Pattern_Wildcard, Num(5)) >>))),
           <<>>, VInt(6)) }

\* (let ((x a)) (let ((x b)) x))
ShadowCases ==
    { Case("shadow", Main(Expr_Let("x", Num(a), Expr_Let("x", Num(b), Var("x")))),
           <<>>, VInt(b)) : a \in {1}, b \in {1, 2} }

\* (< a b)
LessThanCases ==
    { Case("less", Main(Expr_Prim2("LessThan", Num(a), Num(b))), <<>>, VBool(a < b))
        : a \in Operands, b \in Operands }

\* (if c (begin (write-byte 97) 1) (begin (write-byte 98) 2)); f tells
\* whether the value of c is #f
Cond(e, f) == [e |-> e, f |-> f]
IfConds ==
    { Cond(Bool(TRUE), FALSE), Cond(Bool(FALSE), TRUE),
      Cond(Expr_Lit(LitEmptyList), FALSE), Cond(Expr_Eof, FALSE),
      Cond(Expr_Lit(LitChar(0)), FALSE), Cond(Expr_Lit(LitChar(1)), FALSE),
      Cond(Expr_Prim1("IsZero", Num(0)), FALSE), Cond(Expr_Prim1("IsZero", Num(1)), TRUE),
      Cond(Expr_Prim1("IsEof", Num(0)), TRUE), Cond(Expr_Prim1("IsEof", Expr_Eof), FALSE),
      Cond(Expr_Prim0("ReadByte"), FALSE),
      Cond(Expr_Prim1("Box", Bool(FALSE)), FALSE),
      Cond(Expr_Prim2("Cons", Bool(FALSE), Bool(FALSE)), FALSE),
      Cond(Expr_Prim1("Unbox", Expr_Prim1("Box", Bool(FALSE))), TRUE) }
    \cup { Cond(Num(n), FALSE) : n \in Operands \cup {3, 4, 7} }

IfCases ==
    { Case("if", Main(Expr_If(c.e, Expr_Begin(WriteByte(97), Num(1)),
                                   Expr_Begin(WriteByte(98), Num(2)))),
           <<>>, IF c.f THEN VInt(2) ELSE VInt(1)) : c \in IfConds }

\* (match v [p v] [_ #f])
PatLeaves ==
    { Pattern_Wildcard, Pattern_Variable("y"),
      Pattern_Lit(LitInt(1)), Pattern_Lit(LitInt(2)) }
PatParts ==
    { Pattern_Variable("y"), Pattern_Lit(LitInt(1)), Pattern_Box(Pattern_Lit(LitInt(1))),
      Pattern_Box(Pattern_Wildcard), Pattern_Cons(Pattern_Lit(LitInt(1)), Pattern_Wildcard) }
Patterns ==
    PatLeaves
    \cup { Pattern_Lit(LitBool(TRUE)), Pattern_Lit(LitEmptyList) }
    \cup { Pattern_Box(a) : a \in PatLeaves }
    \cup { Pattern_Cons(a, b) : a \in PatLeaves, b \in PatLeaves }
    \cup { Pattern_And(a, b) : a \in PatParts, b \in PatParts }
Values ==
    { VInt(1), VInt(2), VBool(TRUE), VEmptyList, VBox(VInt(1)), VBox(VInt(2)),
      VCons(VInt(1), VInt(2)), VCons(VInt(2), VInt(1)), VCons(VInt(1), VInt(1)) }

MatchCases ==
    { Case("match", Main(Expr_Match(ValueExpr(v),
                           << Arm(p, ValueExpr(v)), Arm(Pattern_Wildcard, Bool(FALSE)) >>)),
           <<>>, IF Matches(p, v) THEN v ELSE VBool(FALSE)) : p \in Patterns, v \in Values }

\* several arms, an earlier one failing inside a nested pattern
ArmsCases ==
    { Case("match", Main(Expr_Match(Num(1), << Arm(Pattern_Wildcard, Num(1)),
                                               Arm(Pattern_Lit(LitInt(1)), Num(2)) >>)),
           <<>>, VInt(1)),
      Case("match", Main(Expr_Match(Num(2), << Arm(Pattern_Lit(LitInt(1)), Num(10)),
                                               Arm(Pattern_Lit(LitInt(2)), Num(20)),
                                               Arm(Pattern_Wildcard, Num(0)) >>)),
           <<>>, VInt(20)),
      Case("match", Main(Expr_Match(Expr_Prim2("Cons", Num(1), Num(2)),
                           << Arm(Pattern_Cons(Pattern_Lit(LitInt(5)), Pattern_Variable("y")),
                                  Num(10)),
                              Arm(Pattern_Lit(LitInt(1)), Num(20)),
                              Arm(Pattern_Wildcard, Num(0)) >>)),
           <<>>, VInt(0)),
      Case("match", Main(Expr_Match(Expr_Prim1("Box", Num(5)),
                           << Arm(Pattern_Box(Pattern_Lit(LitInt(6))), Num(1)),
                              Arm(Pattern_Lit(LitInt(5)), Num(2)),
                              Arm(Pattern_Wildcard, Num(3)) >>)),
           <<>>, VInt(3)) }

\* no arm matches: every arm body writes a byte
NoMatchCases ==
    { Case("nomatch", Main(Expr_Match(ValueExpr(pv[2]), << Arm(pv[1], WriteByte(97)) >>)),
           <<>>, "err")
        : pv \in { x \in Patterns \X Values : ~Matches(x[1], x[2]) } }
    \cup
    { Case("nomatch", Main(Expr_Match(Num(3), << Arm(Pattern_Lit(LitInt(1)), WriteByte(97)),
                                                 Arm(Pattern_Lit(LitInt(2)), WriteByte(98)) >>)),
           <<>>, "err"),
      Case("nomatch", Main(Expr_Match(Expr_Prim1("Box", Num(5)),
                             << Arm(Pattern_Box(Pattern_Lit(LitInt(6))), WriteByte(97)),
                                Arm(Pattern_Lit(LitInt(5)), WriteByte(98)) >>)),
           <<>>, "err") }

\* programs with defines; the main expression applies them in non-tail
\* position
App(f, args) == Expr_App(Var(f), args)
Add1(e) == Expr_Prim1("Add1", e)
Sub1(e) == Expr_Prim1("Sub1", e)
IsZero(e) == Expr_Prim1("IsZero", e)

RECURSIVE Tri(_)
Tri(n) == IF n = 0 THEN 0 ELSE n + Tri(n - 1)

\* (define (f x y) (+ x y))  (add1 (f 42 1))
P_function_call ==
    Program(<< FunctionDefinition("f", <<"x", "y">>, Expr_Prim2("Add", Var("x"), Var("y"))) >>,
            Add1(App("f", << Num(42), Num(1) >>)))

\* (define (tri n) (if (zero? n) 0 (+ n (tri (sub1 n)))))  (add1 (tri n))
P_recursive(n) ==
    Program(<< FunctionDefinition("tri", <<"n">>,
                 Expr_If(IsZero(Var("n")), Num(0),
                         Expr_Prim2("Add", Var("n"), App("tri", << Sub1(Var("n")) >>)))) >>,
            Add1(App("tri", << Num(n) >>)))

\* (define (even? n) (if (zero? n) #t (odd? (sub1 n))))
\* (define (odd? n) (if (zero? n) #f (even? (sub1 n))))  (if (even? n) 1 2)
P_mutually_recursive(n) ==
    Program(<< FunctionDefinition("even?", <<"n">>,
                 Expr_If(IsZero(Var("n")), Bool(TRUE), App("odd?", << Sub1(Var("n")) >>))),
               FunctionDefinition("odd?", <<"n">>,
                 Expr_If(IsZero(Var("n")), Bool(FALSE), App("even?", << Sub1(Var("n")) >>))) >>,
            Expr_If(App("even?", << Num(n) >>), Num(1), Num(2)))

\* (define (f x) (if (zero? x) 42 (f (sub1 x))))  (add1 (f n))
P_tail_call(n) ==
    Program(<< FunctionDefinition("f", <<"x">>,
                 Expr_If(IsZero(Var("x")), Num(42), App("f", << Sub1(Var("x")) >>))) >>,
            Add1(App("f", << Num(n) >>)))

\* (define (g a b) (+ a b))
\* (define (f x) (let ((y (add1 x))) (begin (write-byte 97) (g x y))))  (add1 (f 1))
P_tail_let_begin ==
    Program(<< FunctionDefinition("g", <<"a", "b">>, Expr_Prim2("Add", Var("a"), Var("b"))),
               FunctionDefinition("f", <<"x">>,
                 Expr_Let("y", Add1(Var("x")),
                   Expr_Begin(WriteByte(97), App("g", << Var("x"), Var("y") >>)))) >>,
            Add1(App("f", << Num(1) >>)))

\* (define (k a) (add1 a))  (define (f x) (match x [_ (k x)]))  (add1 (f 1))
P_tail_match ==
    Program(<< FunctionDefinition("k", <<"a">>, Add1(Var("a"))),
               FunctionDefinition("f", <<"x">>,
                 Expr_Match(Var("x"), << Arm(Pattern_Wildcard, App("k", << Var("x") >>)) >>)) >>,
            Add1(App("f", << Num(1) >>)))

\* (define (k a b) a)  (define (f g y) (match y [0 42] [_ (g y y)]))  (add1 (f k 1))
P_tail_match_second_arm ==
    Program(<< FunctionDefinition("k", <<"a", "b">>, Var("a")),
               FunctionDefinition("f", <<"g", "y">>,
                 Expr_Match(Var("y"),
                   << Arm(Pattern_Lit(LitInt(0)), Num(42)),
                      Arm(Pattern_Wildcard, App("g", << Var("y"), Var("y") >>)) >>)) >>,
            Add1(App("f", << Var("k"), Num(1) >>)))

\* (define (f x) (match x [0 42] [_ (f (sub1 x))]))  (add1 (f 1))
P_tail_match_loop ==
    Program(<< FunctionDefinition("f", <<"x">>,
                 Expr_Match(Var("x"),
                   << Arm(Pattern_Lit(LitInt(0)), Num(42)),
                      Arm(Pattern_Wildcard, App("f", << Sub1(Var("x")) >>)) >>)) >>,
            Add1(App("f", << Num(1) >>)))

\* (define (f a b) (match a [0 1] [_ 7]))  (define (g) (add1 (f 1 2)))  (add1 (g))
P_match_in_callee ==
    Program(<< FunctionDefinition("f", <<"a", "b">>,
                 Expr_Match(Var("a"), << Arm(Pattern_Lit(LitInt(0)), Num(1)),
                                         Arm(Pattern_Wildcard, Num(7)) >>)),
               FunctionDefinition("g", <<>>, Add1(App("f", << Num(1), Num(2) >>))) >>,
            Add1(App("g", <<>>)))

\* (define (g y) (add1 y))  (define (f x) (if (zero? x) 0 (g (f (sub1 x)))))  (add1 (f 1))
P_two_captures ==
    Program(<< FunctionDefinition("g", <<"y">>, Add1(Var("y"))),
               FunctionDefinition("f", <<"x">>,
                 Expr_If(IsZero(Var("x")), Num(0),
                         App("g", << App("f", << Sub1(Var("x")) >>) >>))) >>,
            Add1(App("f", << Num(1) >>)))

CallCases ==
    { Case("call", P_function_call, <<>>, VInt(44)),
      Case("call", P_tail_let_begin, <<>>, VInt(4)),
      Case("call", P_tail_match, <<>>, VInt(3)),
      Case("call", P_tail_match_second_arm, <<>>, VInt(2)),
      Case("call", P_tail_match_loop, <<>>, VInt(43)),
      Case("call", P_match_in_callee, <<>>, VInt(9)),
      Case("call", P_two_captures, <<>>, VInt(2)) }
    \cup { Case("call", P_recursive(n), <<>>, VInt(Tri(n) + 1)) : n \in 0..LoopDepth }
    \cup { Case("call", P_mutually_recursive(n), <<>>, VInt(IF n % 2 = 0 THEN 1 ELSE 2))
             : n \in 0..LoopDepth }
    \cup { Case("call", P_tail_call(n), <<>>, VInt(43)) : n \in 0..LoopDepth }

\* A primitive applied to an operand of the wrong type, between two writes:
\* (begin (write-byte 97) (begin (op ...) (write-byte 98))).  An operand is
\* given with its type and with the 32-bit cells its evaluation leaves on
\* the heap; expect is the heap the operands leave behind.
Chr(c) == Expr_Lit(LitChar(c))
MakeVector(n, x) == Expr_Prim2("MakeVector", n, x)
MakeString(n, c) == Expr_Prim2("MakeString", n, c)
VectorRef(v, i) == Expr_Prim2("VectorRef", v, i)
StringRef(v, i) == Expr_Prim2("StringRef", v, i)
VectorSet(v, i, x) == Expr_Prim3("VectorSet", v, i, x)
Str(s) == Expr_Lit(LitString(s))

Opd(e, t, cells) == [e |-> e, t |-> t, cells |-> cells]
Opds ==
    { Opd(Num(1), "int", <<>>), Opd(Bool(TRUE), "bool", <<>>), Opd(Chr(97), "char", <<>>),
      Opd(Expr_Lit(LitEmptyList), "empty", <<>>), Opd(Expr_Eof, "eof", <<>>),
      Opd(Expr_Prim1("Box", Num(1)), "box", << encode(VInt(1)), 0 >>),
      Opd(Expr_Prim2("Cons", Num(1), Num(2)), "cons",
          << encode(VInt(2)), 0, encode(VInt(1)), 0 >>),
      Opd(MakeVector(Num(1), Num(0)), "vector", << 1, 0, encode(VInt(0)), 0 >>),
      Opd(MakeString(Num(1), Chr(97)), "string", << 1, 0, 97, 97 >>) }
Right(t) == CHOOSE o \in Opds : o.t = (IF t = "any" THEN "int" ELSE t)
Wrong(t) == IF t = "any" THEN {} ELSE {o \in Opds : o.t # t}

Sig1 ==
    [Add1 |-> "int", Sub1 |-> "int", IsZero |-> "int", CharToInt |-> "char",
     IntToChar |-> "int", WriteByte |-> "int", Unbox |-> "box", Car |-> "cons", Cdr |-> "cons"]
Sig2 ==
    [Add |-> <<"int", "int">>, Sub |-> <<"int", "int">>, LessThan |-> <<"int", "int">>,
     Equal |-> <<"int", "int">>, MakeVector |-> <<"int", "any">>,
     MakeString |-> <<"int", "char">>, VectorRef |-> <<"vector", "int">>,
     StringRef |-> <<"string", "int">>]
Sig3 == [VectorSet |-> <<"vector", "int", "any">>]

IllTyped(e, cells) ==
    Case("illtyped", Main(Expr_Begin(WriteByte(97), Expr_Begin(e, WriteByte(98)))), <<>>, cells)

IllTypedCases ==
    { IllTyped(Expr_Prim1(op, o.e), o.cells) : op \in DOMAIN Sig1, o \in Opds }
      \ { IllTyped(Expr_Prim1(op, Right(Sig1[op]).e), Right(Sig1[op]).cells) : op \in DOMAIN Sig1 }
\* the wrong operand first, second, or (vector-set!) in either of the two
\* checked positions
IllTypedCases2 ==
    UNION { { IllTyped(Expr_Prim2(op, o.e, Right(Sig2[op][2]).e),
                       o.cells \o Right(Sig2[op][2]).cells) : o \in Wrong(Sig2[op][1]) }
            \cup
            { IllTyped(Expr_Prim2(op, Right(Sig2[op][1]).e, o.e),
                       Right(Sig2[op][1]).cells \o o.cells) : o \in Wrong(Sig2[op][2]) }
            : op \in DOMAIN Sig2 }
IllTypedCases3 ==
    { IllTyped(VectorSet(o.e, Num(0), Num(5)), o.cells) : o \in Wrong("vector") }
    \cup { IllTyped(VectorSet(Right("vector").e, o.e, Num(5)), Right("vector").cells \o o.cells)
             : o \in Wrong("int") }

\* (integer->char n) around the ends of the two code point ranges; expect is n
CodepointEdges ==
    { 0 - 1, 0, 97, 55294, 55295, 55296, 57343, 57344, 57345, 1114111, 1114112 }
IsCodepoint(n) == n \in 0..1114111 /\ n \notin 55296..57343
CodepointCases ==
    { Case("codepoint", Main(Expr_Prim1("IntToChar", Num(n))), <<>>, n) : n \in CodepointEdges }

\* (begin (integer->char m) (integer->char n)); expect is n
CodepointPairCases ==
    { Case("codepoints", Main(Expr_Begin(Expr_Prim1("IntToChar", Num(m)),
                                         Expr_Prim1("IntToChar", Num(n)))), <<>>, n)
        : m \in {97, 57345}, n \in {98, 57346} }

\* (begin (write-byte 97) (begin (write-byte b) (write-byte 98))); expect is b
ByteEdges == { 0 - 256, 0 - 1, 0, 1, 255, 256, 257, 4096 }
IsByte(b) == b \in 0..255
ByteCases ==
    { Case("byte", Main(Expr_Begin(WriteByte(97), Expr_Begin(WriteByte(b), WriteByte(98)))),
           <<>>, b) : b \in ByteEdges }

\* (let ((v (make-vector n 0))) (begin (vector-set! v j 5) (begin (vector-set! v i 7) r)))
\* where r is v itself or (vector-ref v k); expect is the value of r
MaxVector == 3
SetTwice(n, j, i, r) ==
    Main(Expr_Let("v", MakeVector(Num(n), Num(0)),
                  Expr_Begin(VectorSet(Var("v"), Num(j), Num(5)),
                             Expr_Begin(VectorSet(Var("v"), Num(i), Num(7)), r))))
ElemAfter(j, i, k) == IF k = i THEN VInt(7) ELSE IF k = j THEN VInt(5) ELSE VInt(0)
VectorSetCases ==
    UNION { { Case("vset", SetTwice(n, j, i, Var("v")), <<>>,
                   VVector([k \in 1..n |-> ElemAfter(j, i, k - 1)]))
                : j \in 0..(n - 1), i \in 0..(n - 1) }
            \cup { Case("vset", SetTwice(n, j, i, VectorRef(Var("v"), Num(k))), <<>>,
                        ElemAfter(j, i, k))
                     : j \in 0..(n - 1), i \in 0..(n - 1), k \in 0..(n - 1) }
            : n \in 1..MaxVector }

\* (begin (write-byte 97) (begin e (write-byte 98))) where e is (vector-ref v i)
\* or (vector-set! v i 7) and the pair v, i is one the checks reject;
\* expect is the heap after the evaluation of v
BadVector(v, i, cells) == [v |-> v, i |-> i, cells |-> cells]
BadVectors ==
    { BadVector(Num(1), Num(0), <<>>),
      BadVector(Expr_Prim1("Box", Num(1)), Num(0), << encode(VInt(1)), 0 >>),
      BadVector(MakeVector(Num(0), Num(0)), Num(0), <<>>),
      BadVector(MakeVector(Num(2), Num(0)), Bool(TRUE), << 2, 0, 0, 0, 0, 0 >>),
      BadVector(MakeVector(Num(2), Num(0)), Chr(0), << 2, 0, 0, 0, 0, 0 >>),
      BadVector(MakeVector(Num(2), Num(0)), Num(0 - 1), << 2, 0, 0, 0, 0, 0 >>),
      BadVector(MakeVector(Num(2), Num(0)), Num(2), << 2, 0, 0, 0, 0, 0 >>),
      BadVector(MakeVector(Num(2), Num(0)), Num(3), << 2, 0, 0, 0, 0, 0 >>),
      BadVector(MakeVector(Num(1), Num(0)), Num(1), << 1, 0, 0, 0 >>) }
Rejected(e, cells) ==
    Case("vcheck", Main(Expr_Begin(WriteByte(97), Expr_Begin(e, WriteByte(98)))), <<>>, cells)
VectorCheckCases ==
    { Rejected(VectorRef(b.v, b.i), b.cells) : b \in BadVectors }
    \cup { Rejected(VectorSet(b.v, b.i, Num(7)), b.cells) : b \in BadVectors }

\* (make-string n c) and (string-ref (make-string n c) i); expect.v is the
\* value and expect.cells the heap that make-string leaves: the length word
\* and one 32-bit slot per character, padded to an even number of slots
MaxString == 3
StringChars == { 97, 955 }
Even(n) == 2 * ((n + 1) \div 2)
StringCells(n, c) == IF n = 0 THEN <<>> ELSE << n, 0 >> \o [i \in 1..Even(n) |-> c]
StringOf(n, c) == IF n = 0 THEN VEmptyString ELSE VString([i \in 1..n |-> c])
Made(v, cells) == [v |-> v, cells |-> cells]
MakeStringCases ==
    { Case("mkstr", Main(MakeString(Num(n), Chr(c))), <<>>,
           Made(StringOf(n, c), StringCells(n, c))) : n \in 0..MaxString, c \in StringChars }
    \cup UNION { { Case("mkstr", Main(StringRef(MakeString(Num(n), Chr(c)), Num(i))), <<>>,
                        Made(VChar(c), StringCells(n, c))) : i \in 0..(n - 1), c \in StringChars }
                  : n \in 1..MaxString }

\* (string-ref "s" i) for i up to one past the UTF-8 length of s; expect.ok
\* tells whether i is a valid index and expect.v is then the character s[i].
\* Strings are sequences of code points: 233 is e-acute, 955 is lambda.
Literals == { <<>>, << 97 >>, << 97, 98 >>, << 97, 98, 99 >>, << 233 >>, << 97, 955 >> }
Indexed(ok, v) == [ok |-> ok, v |-> v]
CharAt(string, i) ==
    IF i < Len(string) THEN Indexed(TRUE, VChar(string[i + 1])) ELSE Indexed(FALSE, VVoid)
StringLiteralCases ==
    UNION { { Case("strlit", Main(StringRef(Str(string), Num(i))), <<>>, CharAt(string, i))
                : i \in 0..(str_len(string) + 1) } : string \in Literals }
\* (begin (string-ref "a" 0) (string-ref "bc" 1)): two records in the data section
StringLiteralPairCases ==
    { Case("strlit", Main(Expr_Begin(StringRef(Str(<< 97 >>), Num(0)),
                                     StringRef(Str(<< 98, 99 >>), Num(1)))),
           <<>>, CharAt(<< 98, 99 >>, 1)) }

\* (+ a b), (- a b), (add1 a) and (sub1 a); expect is the integer result
ArithOperands == Operands \cup { 0 - 1000000, 1000000 }
ArithCases ==
    { Case("arith", Main(Expr_Prim2("Add", Num(a), Num(b))), <<>>, a + b)
        : a \in ArithOperands, b \in ArithOperands }
    \cup { Case("arith", Main(Expr_Prim2("Sub", Num(a), Num(b))), <<>>, a - b)
             : a \in ArithOperands, b \in ArithOperands }
    \cup { Case("arith", Main(Add1(Num(a))), <<>>, a + 1) : a \in ArithOperands }
    \cup { Case("arith", Main(Sub1(Num(a))), <<>>, a - 1) : a \in ArithOperands }

\* (define (a) 1)  (define (b) 2)  (define (f) (- (a) (b)))  (add1 (f))
\* f captures the two names a and b
P_capture_pair ==
    Program(<< FunctionDefinition("a", <<>>, Num(1)),
               FunctionDefinition("b", <<>>, Num(2)),
               FunctionDefinition("f", <<>>,
                 Expr_Prim2("Sub", App("a", <<>>), App("b", <<>>))) >>,
            Add1(App("f", <<>>)))

CaptureCases ==
    { Case("capture", P_capture_pair, <<>>, VInt(0)),
      Case("capture", P_two_captures, <<>>, VInt(2)) }

\* (match v [p 0] [_ 5]) with a pattern p that fails on v, at top level and
\* inside one or two lets; expect is the number of enclosing lets
Failing(v, p) == [v |-> v, p |-> p]
FailingPatterns ==
    { Failing(Num(1), Pattern_Lit(LitInt(2))),
      Failing(Num(1), Pattern_Box(Pattern_Wildcard)),
      Failing(Num(1), Pattern_Cons(Pattern_Wildcard, Pattern_Wildcard)),
      Failing(Expr_Prim1("Box", Num(5)), Pattern_Box(Pattern_Lit(LitInt(6)))),
      Failing(Expr_Prim2("Cons", Num(1), Num(2)),
              Pattern_Cons(Pattern_Lit(LitInt(2)), Pattern_Wildcard)),
      Failing(Expr_Prim2("Cons", Num(1), Num(2)),
              Pattern_Cons(Pattern_Variable("y"), Pattern_Lit(LitInt(3)))),
      Failing(Num(1), Pattern_And(Pattern_Variable("y"), Pattern_Lit(LitInt(2)))) }
MaxLets == 2
LetNames == << "p", "q", "r", "s" >>
RECURSIVE Lets(_, _)
Lets(d, e) == IF d = 0 THEN e ELSE Expr_Let(LetNames[d], Num(d), Lets(d - 1, e))
PatternFailCases ==
    { Case("patfail",
           Main(Lets(d, Expr_Match(f.v, << Arm(f.p, Num(0)), Arm(Pattern_Wildcard, Num(5)) >>))),
           <<>>, d) : f \in FailingPatterns, d \in 0..MaxLets }

\* (match v ["s" 1] [_ 0]); chars is the text of v where v is a string
Subject(e, isstr, chars) == [e |-> e, isstr |-> isstr, chars |-> chars]
StringSubjects ==
    { Subject(MakeString(Num(n), Chr(97)), TRUE, [i \in 1..n |-> 97]) : n \in 0..MaxString }
    \cup { Subject(Str(<< 97, 98 >>), TRUE, << 97, 98 >>),
           Subject(Str(<< 97 >>), TRUE, << 97 >>),
           Subject(Str(<< 98 >>), TRUE, << 98 >>),
           Subject(Num(1), FALSE, <<>>),
           Subject(Chr(97), FALSE, <<>>),
           Subject(Expr_Prim1("Box", Num(1)), FALSE, <<>>) }
StringPatterns == { << 97 >>, << 97, 97 >>, << 97, 98 >>, << 98 >> }
StringPatternCases ==
    { Case("strpat",
           Main(Expr_Match(v.e, << Arm(Pattern_Lit(LitString(string)), Num(1)),
                                   Arm(Pattern_Wildcard, Num(0)) >>)),
           <<>>, IF v.isstr /\ v.chars = string THEN VInt(1) ELSE VInt(0))
        : v \in StringSubjects, string \in StringPatterns }

\* (begin (write-byte 97) (begin (peek-byte) (begin (read-byte) e))) inside
\* 0..MaxLets lets, so that the calls happen at both parities of rsp; e is 0
\* or the ill-typed (add1 #t), which leaves through err.  expect is the
\* number of enclosing lets.
Calls(e) ==
    Expr_Begin(WriteByte(97), Expr_Begin(Expr_Prim0("PeekByte"),
                                         Expr_Begin(Expr_Prim0("ReadByte"), e)))
AlignCases ==
    { Case("align", Main(Lets(d, Calls(e))), input, d)
        : d \in 0..MaxLets, e \in { Num(0), Add1(Bool(TRUE)) }, input \in { <<>>, << 5 >> } }

\* Whole runs from entry to the return into the runtime; expect is the value
\* of the main expression.
\* (define (f x) (add1 x))  (f 1): the main expression is an application
P_main_call ==
    Program(<< FunctionDefinition("f", <<"x">>, Add1(Var("x"))) >>, App("f", << Num(1) >>))
\* (define (f x) (add1 x))  (if #t (f 1) 0)
P_main_call_in_if ==
    Program(<< FunctionDefinition("f", <<"x">>, Add1(Var("x"))) >>,
            Expr_If(Bool(TRUE), App("f", << Num(1) >>), Num(0)))
EntryCases ==
    { Case("entry", Main(Num(42)), <<>>, VInt(42)),
      Case("entry", Main(Expr_Begin(WriteByte(97), Num(1))), <<>>, VInt(1)),
      Case("entry", Main(Expr_Prim1("Box", Num(1))), <<>>, VBox(VInt(1))),
      Case("entry", P_function_call, <<>>, VInt(44)),
      Case("entry", P_main_call, <<>>, VInt(2)),
      Case("entry", P_main_call_in_if, <<>>, VInt(2)) }

\* Programs that allocate several times; expect is the value of the main
\* expression, which holds every allocated object.
\* (cons (box 1) (cons (make-vector 1 2) (make-string 1 #\a)))
HeapExpr ==
    Expr_Prim2("Cons", Expr_Prim1("Box", Num(1)),
               Expr_Prim2("Cons", MakeVector(Num(1), Num(2)), MakeString(Num(1), Chr(97))))
HeapValue == VCons(VBox(VInt(1)), VCons(VVector(<< VInt(2) >>), VString(<< 97 >>)))
\* (define (f x) (cons x (box x)))  (cons (f 1) (f 2))
P_allocating_calls ==
    Program(<< FunctionDefinition("f", <<"x">>,
                 Expr_Prim2("Cons", Var("x"), Expr_Prim1("Box", Var("x")))) >>,
            Expr_Prim2("Cons", App("f", << Num(1) >>), App("f", << Num(2) >>)))
HeapCases ==
    { Case("heap", Main(HeapExpr), <<>>, HeapValue),
      Case("heap", P_allocating_calls, <<>>,
           VCons(VCons(VInt(1), VBox(VInt(1))), VCons(VInt(2), VBox(VInt(2))))) }

\*-- end of program families
\* (define (f x) (add1 x))  (define (h) f)  (define (g x) body)  (add1 (g 1))
\* with an application of f in one position of body; expect is the value of
\* body where x is 1
FX == App("f", << Var("x") >>)
Body(e, v) == [body |-> e, value |-> v]
NonTailBodies ==
    { Body(Expr_If(FX, Num(10), Num(20)), 10),
      Body(Expr_Let("y", FX, Add1(Var("y"))), 3),
      Body(Expr_Begin(FX, Num(5)), 5),
      Body(Expr_Match(FX, << Arm(Pattern_Lit(LitInt(2)), Num(7)),
                             Arm(Pattern_Wildcard, Num(0)) >>), 7),
      Body(Add1(FX), 3),
      Body(Expr_Prim2("Add", FX, FX), 4),
      Body(Expr_App(App("h", <<>>), << Var("x") >>), 2),
      Body(App("f", << FX >>), 3) }
TailBodies ==
    { Body(Expr_If(Bool(TRUE), FX, Num(0)), 2),
      Body(Expr_If(Bool(FALSE), Num(0), FX), 2),
      Body(Expr_Let("y", Num(5), App("f", << Var("y") >>)), 6),
      Body(Expr_Begin(Num(0), FX), 2),
      Body(Expr_Match(Var("x"), << Arm(Pattern_Wildcard, FX) >>), 2) }
P_position(e) ==
    Program(<< FunctionDefinition("f", <<"x">>, Add1(Var("x"))),
               FunctionDefinition("h", <<>>, Var("f")),
               FunctionDefinition("g", <<"x">>, e) >>,
            Add1(App("g", << Num(1) >>)))
TailCases ==
    { Case("tail", P_position(b.body), <<>>, VInt(b.value + 1))
        : b \in NonTailBodies \cup TailBodies }

\* (define (f x) body)  (add1 (f 1)) where body binds an identifier by a let
\* or by a match pattern and has no free identifier but x; expect is the
\* value of body where x is 1
BindingBodies ==
    { Body(Expr_Let("y", Var("x"), Add1(Var("y"))), 2),
      Body(Expr_Match(Var("x"), << Arm(Pattern_Variable("y"), Add1(Var("y"))) >>), 2),
      Body(Expr_Match(Expr_Prim2("Cons", Var("x"), Num(5)),
                      << Arm(Pattern_Cons(Pattern_Variable("a"), Pattern_Variable("b")),
                             Var("b")) >>), 5) }
P_binding(e) ==
    Program(<< FunctionDefinition("f", <<"x">>, e) >>, Add1(App("f", << Num(1) >>)))
BoundCases ==
    { Case("bound", P_binding(b.body), <<>>, VInt(b.value + 1)) : b \in BindingBodies }

\* (define (k a ...) a_n)  (define (f) (let ((p 1)) ... (k 1 ... n)))  (add1 (f))
\* the tail call in f slides n + 1 words over the 2 + d slots of f (its
\* closure, the captured k and d lets); expect holds n and d
MaxArgs == 3
ParamNames == << "a", "b", "c", "d", "e" >>
P_slide(n, d) ==
    Program(<< FunctionDefinition("k", SubSeq(ParamNames, 1, n),
                                  IF n = 0 THEN Num(0) ELSE Var(ParamNames[n])),
               FunctionDefinition("f", <<>>, Lets(d, App("k", [j \in 1..n |-> Num(j)]))) >>,
            Add1(App("f", <<>>)))
SlideCases ==
    { Case("slide", P_slide(n, d), <<>>, [n |-> n, d |-> d]) : n \in 0..MaxArgs, d \in 0..MaxLets }

\* operands with side effects; expect holds the value and the bytes written
Then(b, e) == Expr_Begin(WriteByte(b), e)
ReadByte == Expr_Prim0("ReadByte")
Ordered(v, o) == [v |-> v, out |-> [i \in 1..Len(o) |-> encode(VInt(o[i]))]]
\* (define (k a b) (- a b))
\* (add1 ((begin (write-byte 1) k) (begin (write-byte 2) (read-byte))
\*                                 (begin (write-byte 3) (read-byte))))
P_ordered_call ==
    Program(<< FunctionDefinition("k", <<"a", "b">>, Expr_Prim2("Sub", Var("a"), Var("b"))) >>,
            Add1(Expr_App(Then(1, Var("k")), << Then(2, ReadByte), Then(3, ReadByte) >>)))
\* (+ 7 (match 1 [2 0] [_ 5]))
P_match_operand ==
    Main(Expr_Prim2("Add", Num(7),
                    Expr_Match(Num(1), << Arm(Pattern_Lit(LitInt(2)), Num(0)),
                                          Arm(Pattern_Wildcard, Num(5)) >>)))
OrderCases ==
    { Case("order", Main(Expr_Prim2("Sub", ReadByte, ReadByte)), << 5, 3 >>,
           Ordered(VInt(2), <<>>)),
      Case("order", Main(Expr_Prim2("Cons", WriteByte(1), WriteByte(2))), <<>>,
           Ordered(VCons(VVoid, VVoid), << 1, 2 >>)),
      Case("order", Main(VectorSet(Then(1, MakeVector(Num(1), Num(0))),
                                   Then(2, Num(0)), Then(3, Num(5)))), <<>>,
           Ordered(VVoid, << 1, 2, 3 >>)),
      Case("order", P_ordered_call, << 5, 3 >>, Ordered(VInt(3), << 1, 2, 3 >>)),
      Case("order", Main(Expr_Prim2("Cons", Expr_Prim1("Box", Num(1)), Expr_Prim1("Box", Num(2)))),
           <<>>, Ordered(VCons(VBox(VInt(1)), VBox(VInt(2))), <<>>)),
      Case("order", Main(Expr_Prim2("Sub", Num(7),
                           Expr_Let("x", Num(2), Expr_Prim2("Sub", Var("x"), Num(1))))),
           <<>>, Ordered(VInt(6), <<>>)),
      Case("order", P_match_operand, <<>>, Ordered(VInt(12), <<>>)) }

Cases ==
    ExprCases \cup ShadowCases \cup LessThanCases \cup IfCases
    \cup MatchCases \cup ArmsCases \cup NoMatchCases \cup CallCases
    \cup IllTypedCases \cup IllTypedCases2 \cup IllTypedCases3
    \cup CodepointCases \cup ByteCases \cup VectorSetCases
    \cup VectorCheckCases \cup MakeStringCases
    \cup StringLiteralCases \cup StringLiteralPairCases \cup ArithCases
    \cup CaptureCases \cup PatternFailCases
    \cup StringPatternCases \cup AlignCases \cup EntryCases
    \cup HeapCases \cup CodepointPairCases \cup TailCases \cup BoundCases
    \cup SlideCases \cup OrderCases

HashOrders == 0..(HashSeeds - 1)
\* Only a set of two or more elements has more than one iteration order.
HasOrderChoice(program) ==
    \E i \in 1..Len(program.function_definitions) :
        Cardinality(free_variables(Expr_Lambda(Lambda(program.function_definitions[i])))) > 1
\* one iteration order for the free-variable set of each define
DefineOrders(program) ==
    { o \in [1..Len(program.function_definitions) -> HashOrders] :
        \A i \in 1..Len(program.function_definitions) :
            Cardinality(free_variables(Expr_Lambda(Lambda(program.function_definitions[i])))) > 1
            \/ o[i] = 0 }

\* one iteration order for the free-variable set of each lambda expression
LambdaOrders(program) ==
    { o \in [1..Len(all_lambdas(program)) -> HashOrders] :
        \A i \in 1..Len(all_lambdas(program)) :
            Cardinality(free_variables(Expr_Lambda(all_lambdas(program)[i]))) > 1 \/ o[i] = 0 }

HasStringChoice(program) == Cardinality(all_string_literals(program)) > 1

Orders(program) ==
    [cap : DefineOrders(program),
     pro : DefineOrders(program),
     lam : LambdaOrders(program),
     str : IF HasStringChoice(program) THEN HashOrders ELSE {0}]

Init ==
    /\ prog \in Cases
    /\ seeds \in {<<a, b>> : a \in Orders(prog.program), b \in Orders(prog.program)}
    /\ code = <<>>
    /\ code2 = <<>>
    /\ status = "init"
    /\ pc = 0
    /\ regs = [r \in RegNames |->
                 CASE r = "rsp" -> EntryRsp
                   [] r = "rdi" -> HeapBase
                   [] r = "rbx" -> RbxAtEntry
                   [] r = "r15" -> R15AtEntry
                   [] OTHER -> 0]
    /\ flags = "eq"
    /\ mem = [a \in Cells(StackAddrs \cup HeapAddrs \cup DataAddrs) |->
                IF a = EntryRsp THEN RuntimeRet ELSE 0]
    /\ out = <<>>
    /\ inp = prog.input
    /\ calls = <<>>
    /\ marks = [main_start |-> 0, main_end |-> 0]
    /\ steps = 0

Next ==
    \/ Compile
    \/ ExecDirective
    \/ ExecMov
    \/ ExecAlu
    \/ ExecCmp
    \/ ExecCmov
    \/ ExecJump
    \/ ExecJmpRegister
    \/ ExecPush
    \/ ExecPop
    \/ ExecLea
    \/ ExecLeaArithmetic
    \/ ExecCall
    \/ ExecRet

Spec == Init /\ [][Next]_vars

(***************************************************************************)
(* Properties.                                                             *)
(***************************************************************************)
Defs == prog.program.function_definitions
AtStatement(op) == status = "run" /\ pc \in 1..Len(code) /\ Cur.op = op
Failed == status \in {"err", "fault", "panic"}

\* C1: an expression that is not a tail call leaves rsp where it found it:
\* when control leaves the main expression, rsp has the value it had when
\* control entered it.
C1_RspRestoredAtExit == AtMainEnd => regs.rsp = MainRsp

\* C2: a variable reference reads the innermost binding of its name:
\* (let ((x a)) (let ((x b)) x)) yields b.
C2_InnermostBinding == (prog.tag = "shadow" /\ AtMainEnd) => Result = prog.expect

\* C3: when control reaches the return label of a non-tail application whose
\* argument count equals the callee's parameter count, the call sequence that
\* is completing is the one of this application, rsp has the value it had
\* before that sequence began, and the main expression ends with the value
\* the callee bodies compute.
C3_CallReturnsBalanced ==
    /\ (AtStatement("Label") /\ IsReturnSite(Cur.name)) =>
          /\ calls # <<>>
          /\ Top(calls).arity => (Top(calls).site = Cur.name /\ Top(calls).rsp = regs.rsp)
    /\ (prog.tag = "call" /\ ~HasOrderChoice(prog.program) /\ AtMainEnd) =>
          Result = prog.expect

\* C4: at the indirect jump of a tail application inside a function body the
\* outgoing closure and arguments sit directly above the return address of
\* the current frame, which is still the address of the original caller's
\* return site.
C4_TailCallReusesFrame ==
    (AtStatement("JmpRegister") /\ IsTailJump(pc) /\ pc > marks.main_end /\ calls # <<>>) =>
        LET ra == Top(calls).rsp - 8
        IN /\ regs.rsp + 8 * (SiteArgs(pc) + 1) = ra
           /\ mem[ra] = CodeAddr(LabelIndex(Top(calls).site))

\* The tagged closure pointer of the i-th define, as the prologue left it on
\* the stack, and the words of the closure it points to.
ClosureOf(i) == mem[MainRsp + 8 * (NDefs - i)]
ClosureWord(i, k) == mem[ClosureOf(i) - CLOSURE_TYPE.tag + 8 * k]
DefinesReferenced(i) ==
    { j \in 1..NDefs : Defs[j].name \in free_variables(Expr_Lambda(Lambda(Defs[i]))) }

\* the capture slot for the define named g in the closure of the i-th define:
\* the closure word which the code block of that define (compile_lambda_definition)
\* binds to g
CaptureSlot(i, g) ==
    CHOOSE k \in 1..Cardinality(DefinesReferenced(i)) :
        iter(free_variables(Expr_Lambda(Lambda(Defs[i]))), seeds[1].pro[i])[k] = g

\* C5: when the prologue has run, the closure of every define f holds the
\* address of f's code and, for every define g that f's body references (f
\* itself, a define before it or one after it), the capture slot for g holds
\* g's tagged closure pointer, and it has no other capture slots; defines
\* that reference one another and themselves then compute the right value.
C5_DefineClosuresInitialised ==
    /\ AtMainStart =>
          \A i \in 1..NDefs :
             /\ ClosureOf(i) % Pow2(IMMEDIATE_SHIFT) = CLOSURE_TYPE.tag
             /\ ClosureWord(i, 0) = CodeAddr(LabelIndex(get_label(Lambda(Defs[i]))))
             /\ \A j \in DefinesReferenced(i) :
                   ClosureWord(i, CaptureSlot(i, Defs[j].name)) = ClosureOf(j)
             /\ \A k \in 1..Cardinality(DefinesReferenced(i)) :
                   \E j \in DefinesReferenced(i) : ClosureWord(i, k) = ClosureOf(j)
    /\ (\/ \E n \in 0..LoopDepth : prog.program = P_mutually_recursive(n)
        \/ prog.program = P_two_captures) =>
          /\ ~Failed
          /\ AtMainEnd => Result = prog.expect

\* C6: two invocations of compile on the same program emit the same
\* statements.
C6_CompileDeterministic == status # "init" => code = code2

\* C7: the arms of a match are tried in order, each against the value of the
\* scrutinee: the match yields the body of the first arm whose pattern
\* matches that value; (match v [p v] [_ #f]) yields v iff p matches v.
C7_ArmsTestScrutinee ==
    prog.tag = "match" => (~Failed /\ (AtMainEnd => Result = prog.expect))

\* C8: when no arm matches the scrutinee, no arm body executes and control
\* goes to the error exit.
C8_NoMatchIsError ==
    prog.tag = "nomatch" => (out = <<>> /\ status \notin {"done", "fault"} /\ ~AtMainEnd)

\* C9: in (if c t e) exactly one branch is evaluated, and it is e only when
\* the value of c is #f.
C9_OnlyFalseSelectsElse ==
    prog.tag = "if" =>
        /\ Len(out) <= 1
        /\ ~Failed
        /\ AtMainEnd => (Result = prog.expect /\ out = <<encode(VInt(96 + prog.expect.n))>>)

\* reached: the condition is the integer 0 and the then branch alone ran
C9_Witness ==
    /\ AtMainEnd
    /\ prog.tag = "if"
    /\ prog.program.expr.cond = Num(0)
    /\ out = <<encode(VInt(97))>>
    /\ Result = VInt(1)

\* C10: (< a b) yields #t iff a is less than b.
C10_LessThanFirstSecond == (prog.tag = "less" /\ AtMainEnd) => Result = prog.expect

\* the heap holds exactly the given 32-bit cells, and rbx points past them
HeapIs(cells) ==
    /\ regs.rbx = HeapBase + 4 * Len(cells)
    /\ \A a \in Cells(HeapAddrs) :
          mem[a] = IF (a - HeapBase) \div 4 < Len(cells) THEN cells[(a - HeapBase) \div 4 + 1] ELSE 0

\* C11: a primitive applied to an operand of the wrong type ends the program
\* through err: the run never completes or faults, the heap holds what the
\* evaluation of the operands left there and nothing else, and the write
\* that follows the primitive never happens.
C11_IllTypedOperandIsError ==
    prog.tag = "illtyped" =>
        /\ status \notin {"done", "fault", "wide", "panic"}
        /\ status = "run" => Running
        /\ ~AtMainEnd
        /\ Len(out) <= 1
        /\ out # <<>> => out = << encode(VInt(97)) >>
        /\ status = "err" => (out = << encode(VInt(97)) >> /\ HeapIs(prog.expect))

C11_Witness ==
    /\ status = "err"
    /\ prog = IllTyped(VectorSet(Right("vector").e, Bool(TRUE), Num(5)), Right("vector").cells)
    /\ out = << encode(VInt(97)) >>
    /\ mem[HeapBase + 8] = encode(VInt(0))


\* C12: (integer->char n) yields the char with code point n exactly when
\* 0 <= n <= 0x10FFFF and n is outside 0xD800..0xDFFF (0xD7FF and 0xE000
\* included in the accepted values); every other n ends in err.
C12_IntegerToCharRange ==
    prog.tag = "codepoint" =>
        /\ status \notin {"fault", "wide", "panic"}
        /\ AtMainEnd => (IsCodepoint(prog.expect) /\ Result = VChar(prog.expect))
        /\ status = "err" => ~IsCodepoint(prog.expect)

\* C13: (write-byte b) calls write_byte only for 0 <= b <= 255; a negative b
\* or one above 255 ends in err with write_byte not called for it.
C13_WriteByteRange ==
    prog.tag = "byte" =>
        /\ status \notin {"fault", "wide", "panic"}
        /\ \A i \in 1..Len(out) : out[i] \in {encode(VInt(b)) : b \in 0..255}
        /\ status = "err" => (~IsByte(prog.expect) /\ out = << encode(VInt(97)) >>)
        /\ AtMainEnd => (IsByte(prog.expect)
                          /\ out = << encode(VInt(97)), encode(VInt(prog.expect)), encode(VInt(98)) >>)


\* C14: (vector-set! v i x) with 0 <= i < length(v) changes exactly element
\* i: afterwards (vector-ref v i) yields x, every other element is what it
\* was before, and the length of v is unchanged.
C14_VectorSetChangesElement ==
    prog.tag = "vset" =>
        /\ ~Failed
        /\ status # "wide"
        /\ AtMainEnd => Result = prog.expect

\* reached: in a vector of three elements, element 2 was set to 5 and then
\* element 1 to 7; element 0 still holds the initial value
C14_Witness ==
    /\ AtMainEnd
    /\ prog = Case("vset", SetTwice(3, 2, 1, Var("v")), <<>>,
                   VVector(<< VInt(0), VInt(7), VInt(5) >>))
    /\ Result = VVector(<< VInt(0), VInt(7), VInt(5) >>)


\* C15: vector-ref and vector-set! make the same checks: when v is not a
\* vector, v is the empty vector, i is not a non-negative integer or
\* i >= length(v), either of them ends in err with the heap left as it was.
C15_VectorChecksAgree ==
    prog.tag = "vcheck" =>
        /\ status \notin {"fault", "wide", "panic"}
        /\ ~AtMainEnd
        /\ Len(out) <= 1
        /\ status = "err" => (out = << encode(VInt(97)) >> /\ HeapIs(prog.expect))


\* C16: (string-ref (make-string n c) i) yields c for every 0 <= i < n, for
\* odd and even n, and make-string writes only inside the region it
\* allocates: the heap beyond it stays untouched.
C16_MakeStringRef ==
    prog.tag = "mkstr" =>
        /\ ~Failed
        /\ status # "wide"
        /\ \A a \in Cells(HeapAddrs) :
               a >= HeapBase + 4 * Len(prog.expect.cells) => mem[a] = 0
        /\ AtMainEnd => (Result = prog.expect.v /\ HeapIs(prog.expect.cells))

\* reached: the last character of a string of odd length was read
C16_Witness ==
    /\ AtMainEnd
    /\ prog.tag = "mkstr"
    /\ prog.program = Main(StringRef(MakeString(Num(3), Chr(955)), Num(2)))
    /\ Result = VChar(955)
    /\ regs.rbx = HeapBase + 24


\* C17: the static record of a string literal s holds the number of
\* characters of s followed by one 32-bit word per character, so
\* (string-ref "s" i) yields s[i] for every i below the number of characters
\* and ends in err for every other i, for non-ASCII s as well.
C17_StringLiteralRecord ==
    prog.tag = "strlit" =>
        /\ status \notin {"fault", "wide", "panic"}
        /\ (status # "init" /\ prog.program.expr.k = "Prim2") =>
               LET string == prog.program.expr.e1.lit.s
               IN /\ mem[DataBase] = Len(string)
                  /\ \A i \in 1..Len(string) : mem[DataBase + 4 + 4 * i] = string[i]
        /\ AtMainEnd => (prog.expect.ok /\ Result = prog.expect.v)
        /\ status = "err" => ~prog.expect.ok


\* C18: +, -, add1 and sub1 work on the encoded operands: the result is
\* exactly the encoding of a+b, a-b (first minus second), a+1 and a-1, with
\* the integer tag bits zero.
C18_ArithmeticOnEncodings ==
    prog.tag = "arith" =>
        /\ ~Failed
        /\ status # "wide"
        /\ AtMainEnd => /\ regs.rax = encode(VInt(prog.expect))
                        /\ regs.rax % Pow2(INT_TYPE.shift) = INT_TYPE.tag

\* reached: (- 1 2) has yielded the encoding of -1
C18_Witness ==
    /\ AtMainEnd
    /\ prog.tag = "arith"
    /\ prog.program = Main(Expr_Prim2("Sub", Num(1), Num(2)))
    /\ regs.rax = 0 - Pow2(INT_TYPE.shift)


\* C19: closure creation and the callee prologue agree on the order of the
\* captured variables, so a reference to a captured variable in a body
\* reads the value captured for that name, with two captures as well:
\* a function over two captured names yields the value its body denotes.
C19_CaptureOrderAgrees ==
    prog.tag = "capture" => (~Failed /\ (AtMainEnd => Result = prog.expect))


\* C20: a failing pattern releases exactly the words its own arm has pushed
\* and no slot of the enclosing environment: when control arrives at the
\* arm's next label, rsp has the value it had at the start of the arm,
\* whatever the length of the outer environment.
C20_PatternFailureKeepsOuterEnv ==
    (prog.tag = "patfail" /\ AtStatement("Label") /\ Cur.name[1] = "next")
        => regs.rsp = MainRsp - 8 * prog.expect


\* C21: a string-literal pattern "s" matches v iff v is a string of the
\* length of s with the characters of s; a non-string, a string of another
\* length (a longer one with s as a prefix included) and the empty-string
\* singleton do not match: (match v ["s" 1] [_ 0]) yields 1 or 0 accordingly.
C21_StringPatternMatches ==
    prog.tag = "strpat" => (~Failed /\ status # "wide" /\ (AtMainEnd => Result = prog.expect))


\* C22: at every call of read_byte, peek_byte, write_byte or raise_error rsp
\* is a multiple of 16, and after a call that returns, once the padding is
\* undone, rsp has the value it had before the alignment sequence.
C22_CallsAligned ==
    /\ AtStatement("Call") => regs.rsp % 16 = 0
    /\ (prog.tag = "align" /\ status = "run" /\ pc \in 2..Len(code)
           /\ code[pc - 1] = Add(RSP, R15))
          => regs.rsp = MainRsp - 8 * prog.expect

\* reached: read_byte has returned from a call that needed 8 bytes of padding
C22_Witness ==
    /\ prog.tag = "align"
    /\ status = "run"
    /\ pc \in 3..Len(code)
    /\ code[pc - 1] = Add(RSP, R15)
    /\ code[pc - 2] = Call(<<"read_byte">>)
    /\ regs.r15 = 8
    /\ regs.rsp = MainRsp - 16
    /\ out = << encode(VInt(97)) >>


\* C23: entry returns to the runtime with rsp, rbx and r15 holding the
\* values they had at entry, on every path that returns, the one where the
\* main expression is an application included: every such program returns
\* normally, with its value in rax.
C23_EntryRestoresRegisters ==
    prog.tag = "entry" =>
        /\ ~Failed
        /\ status = "done" => /\ regs.rsp = EntryRsp + 8
                              /\ regs.rbx = RbxAtEntry
                              /\ regs.r15 = R15AtEntry
                              /\ Result = prog.expect


\* rbx holds the heap pointer: entry has loaded the heap base
HeapInUse ==
    /\ status = "run"
    /\ pc \in 2..Len(code)
    /\ pc > Min({i \in 1..Len(code) : code[i] = Mov(RBX, RDI)})
\* the program is inside the fill loop of make-string, which advances rbx by
\* four bytes a character (an even number of times)
InStringFill ==
    \E i \in 1..pc : \E j \in pc..Len(code) :
        /\ j - i = 5
        /\ code[i].op = "Label"
        /\ code[i + 1] = Mov(Offset("rbx", 0), EAX)
        /\ code[j] = Jne(code[i].name)
\* the store of vector-set!, the one heap write that is not an allocation
VectorSetStore == Mov(Offset("r8", 8), RAX)

\* C24 as stated: rbx is 8-byte aligned at every step, the fill loop of
\* make-string included
C24_AlignedAtEveryStep == HeapInUse => regs.rbx % 8 = 0

\* C24: rbx never decreases and is 8-byte aligned whenever the fill loop of
\* make-string is not running; a heap write of an
\* allocating operation never touches a word below the current rbx, and
\* when the main expression is done every written word lies below rbx and
\* every allocated object is intact.
C24_HeapGrowsUpward ==
    /\ []((HeapInUse /\ ~InStringFill) => regs.rbx % 8 = 0)
    /\ []((prog.tag = "heap" /\ AtMainEnd) =>
             /\ Result = prog.expect
             /\ \A a \in Cells(HeapAddrs) : a >= regs.rbx => mem[a] = 0)
    /\ [][HeapInUse =>
             /\ regs.rbx' >= regs.rbx
             /\ Cur # VectorSetStore =>
                   \A a \in Cells(HeapAddrs) : mem'[a] # mem[a] => a >= regs.rbx]_vars

\* reached: the four objects of the first program are allocated one after
\* the other and the main expression has its value
C24_Witness ==
    /\ AtMainEnd
    /\ prog.tag = "heap"
    /\ prog.program = Main(HeapExpr)
    /\ Result = HeapValue
    /\ regs.rbx = HeapBase + 8 + 16 + 16 + 16 + 16

\* the positions of the emitted program that define a label of this name
Definitions(name) == { i \in 1..Len(code) : code[i] = Label(name) }
LabelNames == { code[i].name : i \in { j \in 1..Len(code) : code[j].op = "Label" } }
Compiled == steps = 1 /\ status = "run"

\* C25: every label defined in an emitted program is defined exactly once,
\* also in a program that uses integer->char twice.
C25_LabelsDefinedOnce ==
    Compiled => \A name \in LabelNames : Cardinality(Definitions(name)) = 1

\* the number of applications of an expression that stand in a position of
\* the given kind, where the expression itself stands in position tail
RECURSIVE Applications(_, _, _)
RECURSIVE ApplicationsAll(_, _)
RECURSIVE ApplicationsArms(_, _, _)
ApplicationsAll(exprs, kind) ==
    IF exprs = <<>> THEN 0
    ELSE Applications(Head(exprs), FALSE, kind) + ApplicationsAll(Tail(exprs), kind)
ApplicationsArms(arms, tail, kind) ==
    IF arms = <<>> THEN 0
    ELSE Applications(Head(arms).body, tail, kind) + ApplicationsArms(Tail(arms), tail, kind)
Applications(e, tail, kind) ==
    CASE e.k = "App" ->
            (IF tail = kind THEN 1 ELSE 0)
            + Applications(e.function, FALSE, kind) + ApplicationsAll(e.args, kind)
      [] e.k = "Prim1" -> Applications(e.e, FALSE, kind)
      [] e.k = "Prim2" -> ApplicationsAll(<< e.e1, e.e2 >>, kind)
      [] e.k = "Prim3" -> ApplicationsAll(<< e.e1, e.e2, e.e3 >>, kind)
      [] e.k = "Begin" -> Applications(e.e1, FALSE, kind) + Applications(e.e2, tail, kind)
      [] e.k = "If" ->
            Applications(e.cond, FALSE, kind)
            + Applications(e.then, tail, kind) + Applications(e.els, tail, kind)
      [] e.k = "Let" -> Applications(e.rhs, FALSE, kind) + Applications(e.body, tail, kind)
      [] e.k = "Match" ->
            Applications(e.expr, FALSE, kind) + ApplicationsArms(e.arms, tail, kind)
      [] OTHER -> 0
\* every function body stands in tail position; the main expression, which
\* compile lowers in front of its ret, does not
RECURSIVE ApplicationsDefs(_, _)
ApplicationsDefs(definitions, kind) ==
    IF definitions = <<>> THEN 0
    ELSE Applications(Head(definitions).body, TRUE, kind)
         + ApplicationsDefs(Tail(definitions), kind)
ApplicationsOf(program, kind) ==
    Applications(program.expr, FALSE, kind) + ApplicationsDefs(program.function_definitions, kind)

ReturnSites == { i \in 1..Len(code) : code[i].op = "Label" /\ IsReturnSite(code[i].name) }
IndirectJumps == { i \in 1..Len(code) : code[i].op = "JmpRegister" }

\* C26: the emitted program has one return site per application in a
\* non-tail position (if condition, let right-hand side, first of begin,
\* match scrutinee, primitive operand, callee, argument) and one frame slide
\* without return site per application in a tail position, and a function
\* whose body has an application in any of these positions returns the value
\* of its body.
C26_TailFlagOnlyInTailPositions ==
    /\ Compiled =>
          /\ Cardinality(ReturnSites) = ApplicationsOf(prog.program, FALSE)
          /\ Cardinality(IndirectJumps) - Cardinality(ReturnSites)
                = ApplicationsOf(prog.program, TRUE)
    /\ prog.tag = "tail" => (~Failed /\ (AtMainEnd => Result = prog.expect))

\* reached: the body (begin (f x) 5) has returned from f and given 5
C26_Witness ==
    /\ AtMainEnd
    /\ prog.program = P_position(Expr_Begin(FX, Num(5)))
    /\ Result = VInt(6)
    /\ Cardinality(ReturnSites) = 2

\* the identifiers a pattern binds
RECURSIVE PatternVariables(_)
PatternVariables(p) ==
    CASE p.k = "Variable" -> {p.id}
      [] p.k = "Cons" -> PatternVariables(p.car) \cup PatternVariables(p.cdr)
      [] p.k = "Box" -> PatternVariables(p.pattern)
      [] p.k = "And" -> PatternVariables(p.left) \cup PatternVariables(p.right)
      [] OTHER -> {}
\* the identifiers that occur free in an expression: a let binds its
\* identifier in its body, a match arm binds the identifiers of its pattern
\* in its body
RECURSIVE Free(_)
RECURSIVE FreeAll(_)
RECURSIVE FreeArms(_)
FreeAll(exprs) == IF exprs = <<>> THEN {} ELSE Free(Head(exprs)) \cup FreeAll(Tail(exprs))
FreeArms(arms) ==
    IF arms = <<>> THEN {}
    ELSE (Free(Head(arms).body) \ PatternVariables(Head(arms).pattern)) \cup FreeArms(Tail(arms))
Free(e) ==
    CASE e.k = "Variable" -> {e.id}
      [] e.k = "Prim1" -> Free(e.e)
      [] e.k = "Prim2" -> FreeAll(<< e.e1, e.e2 >>)
      [] e.k = "Prim3" -> FreeAll(<< e.e1, e.e2, e.e3 >>)
      [] e.k = "Begin" -> FreeAll(<< e.e1, e.e2 >>)
      [] e.k = "App" -> Free(e.function) \cup FreeAll(e.args)
      [] e.k = "If" -> FreeAll(<< e.cond, e.then, e.els >>)
      [] e.k = "Let" -> Free(e.rhs) \cup (Free(e.body) \ {e.lhs})
      [] e.k = "Match" -> Free(e.expr) \cup FreeArms(e.arms)
      [] OTHER -> {}

\* C27: the set a closure captures is the set of free identifiers of the
\* body minus the parameters minus the function's own name, and the program
\* of a function whose body binds identifiers by let or match compiles and
\* gives the value of the body.
C27_CapturesAreFreeVariables ==
    /\ steps = 1 =>
          \A i \in 1..NDefs :
              free_variables(Expr_Lambda(Lambda(Defs[i])))
                = (Free(Defs[i].body) \ Range(Defs[i].params)) \ {Defs[i].name}
    /\ prog.tag = "bound" => (~Failed /\ (AtMainEnd => Result = prog.expect))

\* the tail call of f is about to jump to k
AtSlideEnd == prog.tag = "slide" /\ AtStatement("JmpRegister") /\ IsTailJump(pc)

\* C28: after the slide of a tail call the outgoing frame (the closure and
\* the n arguments) lies right below the return address of the caller, every
\* word of it unchanged, also when the frame is longer than the distance it
\* moves; the callee then returns its last argument.
C28_SlidePreservesFrame ==
    /\ AtSlideEnd =>
          /\ calls # <<>>
          /\ regs.rsp = Top(calls).rsp - 8 - 8 * (prog.expect.n + 1)
          /\ mem[Top(calls).rsp - 8] = CodeAddr(LabelIndex(Top(calls).site))
          /\ \A j \in 1..prog.expect.n :
                mem[regs.rsp + 8 * (prog.expect.n - j)] = encode(VInt(j))
          /\ mem[regs.rsp + 8 * prog.expect.n] % 8 = CLOSURE_TYPE.tag
          /\ mem[mem[regs.rsp + 8 * prog.expect.n] - CLOSURE_TYPE.tag] = regs.rax
          /\ code[regs.rax - CodeBase] = Label(format("lambda", "k"))
    /\ prog.tag = "slide" =>
          (~Failed /\ (AtMainEnd => Result = VInt(prog.expect.n + 1)))

\* reached: a frame of four words has moved up by two words
C28_Witness ==
    /\ AtSlideEnd
    /\ prog.expect = [n |-> 3, d |-> 0]
    /\ regs.rsp = Top(calls).rsp - 40
    /\ mem[regs.rsp] = encode(VInt(3))
    /\ mem[regs.rsp + 16] = encode(VInt(1))

\* the records of the data section: the positions of their labels
StringRecords == { i \in DataIndex(code)..Len(code) : code[i].op = "Label" }

\* C29: the label of every string literal lies at an 8-byte-aligned address
\* (the data section itself starts at one), so that label + string tag has
\* the string tag in its low three bits.
C29_StringLabelsAligned ==
    Compiled => \A i \in StringRecords :
                   /\ DataAddr(code, i) % 8 = 0
                   /\ (DataAddr(code, i) + STRING_TYPE.tag) % 8 = STRING_TYPE.tag

\* C30: operands are evaluated left to right and an earlier operand's value
\* stays on the stack while the later ones are evaluated: a program whose
\* operands read, write, allocate or match gives the value and the output
\* of left-to-right evaluation, and the box of the first operand lies below
\* the box of the second.
C30_OperandsLeftToRight ==
    prog.tag = "order" =>
        /\ ~Failed
        /\ AtMainEnd =>
              /\ Result = prog.expect.v
              /\ out = prog.expect.out
              /\ prog.expect.v = VCons(VBox(VInt(1)), VBox(VInt(2))) =>
                    (mem[HeapBase] = encode(VInt(1)) /\ mem[HeapBase + 8] = encode(VInt(2)))

====
